---- MODULE Spec2Model ----
(***************************************************************************)
(* Verification model of the text-annotation pipeline of                   *)
(* chinese-article-learner (server/src/services/ai.ts):                      *)
(*   processSentences  - sentence segmentation, pinyin annotation and       *)
(*                       per-sentence translation                           *)
(*   generateSummary   - language-model summary with placeholders           *)
(*   extractVocabulary - language-model vocabulary extraction               *)
(*                                                                         *)
(* Strings are sequences of Unicode code points (all characters used here  *)
(* lie in the Basic Multilingual Plane, so a code point is one UTF-16      *)
(* unit and String.length is Len).                                         *)
(***************************************************************************)
EXTENDS Integers, Sequences, FiniteSets, TLC

(***************************************************************************)
(* Bounds of the model                                                     *)
(***************************************************************************)
\* longest article text explored by Spec
MaxLen == 4
\* longest article text explored by SpecLLM
MaxLLMLen == 2

(***************************************************************************)
(* Characters                                                              *)
(***************************************************************************)
\* U+3002 。  U+FF01 ！  U+FF1F ？   (the class of the regex /([。！？])/)
PrimaryMarks == {12290, 65281, 65311}
\* U+FF0C ，  U+FF1B ；              (the class of the regex /[，；]/)
SecondaryDelims == {65292, 65307}
\* code points String.prototype.trim() removes (those that can occur here)
WhiteSpace == {9, 10, 13, 32, 160, 12288}
\* characters article texts are built from: 你 U+4F60, 装 U+88C5, space,
\* 。 ？ ， the letter a and the digit 1
Alphabet == {20320, 35013, 32, 12290, 65311, 65292, 97, 49}

\* all strings over S of length at most n
RECURSIVE StringsUpTo(_, _)
StringsUpTo(S, n) ==
  IF n = 0 THEN {<<>>}
  ELSE LET shorter == StringsUpTo(S, n - 1)
       IN shorter \cup {Append(s, c) : s \in {t \in shorter : Len(t) = n - 1}, c \in S}

Texts == StringsUpTo(Alphabet, MaxLen)

(***************************************************************************)
(* String primitives of the JavaScript runtime, as used by the service     *)
(***************************************************************************)
RECURSIVE TrimLeft(_)
TrimLeft(s) ==
  IF s # <<>> /\ Head(s) \in WhiteSpace THEN TrimLeft(Tail(s)) ELSE s

RECURSIVE TrimRight(_)
TrimRight(s) ==
  IF s # <<>> /\ s[Len(s)] \in WhiteSpace
  THEN TrimRight(SubSeq(s, 1, Len(s) - 1)) ELSE s

\* String.prototype.trim
TrimNone(s) == s
Trim(s) == TrimRight(TrimLeft(s))

\* String.prototype.split(regex) for a one-character class; with capture the
\* matched delimiter is spliced into the result after the piece it ends.
RECURSIVE SplitFrom(_, _, _, _, _, _)
SplitFrom(s, delims, capture, i, cur, acc) ==
  IF i > Len(s) THEN Append(acc, cur)
  ELSE IF s[i] \in delims
       THEN SplitFrom(s, delims, capture, i + 1, <<>>,
                      IF capture THEN acc \o <<cur, <<s[i]>>>> ELSE Append(acc, cur))
       ELSE SplitFrom(s, delims, capture, i + 1, Append(cur, s[i]), acc)

Split(s, delims, capture) == SplitFrom(s, delims, capture, 1, <<>>, <<>>)

\* Array.prototype.filter
RECURSIVE SelectSeqRec(_, _)
SelectSeqRec(xs, keep) ==
  IF xs = <<>> THEN <<>>
  ELSE (IF Head(xs) \in keep THEN <<Head(xs)>> ELSE <<>>) \o SelectSeqRec(Tail(xs), keep)

\* concatenation of a sequence of strings
RECURSIVE Concat(_)
Concat(ss) == IF ss = <<>> THEN <<>> ELSE Head(ss) \o Concat(Tail(ss))

(***************************************************************************)
(* processSentences, lines 77-100: sentence segmentation                   *)
(***************************************************************************)
\* lines 81-88: recombine the pieces of the split with their punctuation
RECURSIVE RecombineDropPunct(_, _)
RecombineDropPunct(parts, i) ==
  IF i > Len(parts) THEN <<>>
  ELSE LET text == Trim(parts[i])
       IN (IF text # <<>> THEN <<text>> ELSE <<>>) \o RecombineDropPunct(parts, i + 2)

RECURSIVE RecombineUntrimmed(_, _)
RecombineUntrimmed(parts, i) ==
  IF i > Len(parts) THEN <<>>
  ELSE LET text  == Trim(parts[i])
           punct == IF i + 1 <= Len(parts) THEN parts[i + 1] ELSE <<>>
       IN (IF text # <<>> THEN <<parts[i] \o punct>> ELSE <<>>) \o
          RecombineUntrimmed(parts, i + 2)

RECURSIVE RecombineReversed(_, _)
RecombineReversed(parts, i) ==
  IF i > Len(parts) THEN <<>>
  ELSE LET text  == Trim(parts[i])
           punct == IF i + 1 <= Len(parts) THEN parts[i + 1] ELSE <<>>
       IN RecombineReversed(parts, i + 2) \o
          (IF text # <<>> THEN <<text \o punct>> ELSE <<>>)

RECURSIVE Recombine(_, _)
Recombine(parts, i) ==
  IF i > Len(parts) THEN <<>>
  ELSE LET text  == Trim(parts[i])
           punct == IF i + 1 <= Len(parts) THEN parts[i + 1] ELSE <<>>
       IN (IF text # <<>> THEN <<text \o punct>> ELSE <<>>) \o Recombine(parts, i + 2)

\* lines 93-99: the fallback taken when the first pass found no sentence
CommaFallback(chineseText) ==
  LET commaParts == Split(chineseText, SecondaryDelims, FALSE)
  IN IF Len(commaParts) > 1
     THEN LET trimmed == [k \in 1..Len(commaParts) |-> Trim(commaParts[k])]
          IN SelectSeqRec(trimmed, {trimmed[k] : k \in 1..Len(trimmed)} \ {<<>>})
     ELSE <<Trim(chineseText)>>

\* lines 77-100
Segment(chineseText) ==
  LET parts == Split(chineseText, PrimaryMarks, TRUE)
      first == Recombine(parts, 1)
  IN IF Len(first) = 0 /\ Trim(chineseText) # <<>>
     THEN CommaFallback(chineseText)
     ELSE first

(***************************************************************************)
(* processSentences, lines 105-134: pinyin annotation                      *)
(***************************************************************************)
\* lines 106-111
isChineseChar(code) ==
  \/ (code >= 19968 /\ code <= 40959)
  \/ (code >= 13312 /\ code <= 19903)
  \/ (code >= 131072 /\ code <= 173791)

\* the character class of the regex of isPinyin (line 126):
\* a-z, A-Z and the tone-marked vowels
PinyinLetters ==
  (97..122) \cup (65..90) \cup
  {257, 225, 462, 224, 275, 233, 283, 232, 299, 237, 464, 236, 333, 243,
   466, 242, 363, 250, 468, 249, 470, 472, 474, 476, 252}

\* line 126
isPinyinShort(s) ==
  /\ s # <<>>
  /\ \A k \in 1..Len(s) : s[k] \in PinyinLetters
  /\ Len(s) <= 5

isPinyin(s) ==
  /\ s # <<>>
  /\ \A k \in 1..Len(s) : s[k] \in PinyinLetters
  /\ Len(s) <= 6

\* The transliteration library (pinyinFn, called at lines 119-122) works on
\* units: each Chinese character is a unit, and so is each maximal run of
\* digits, of Latin letters, of white space and of other characters.
UnitClass(c) ==
  IF isChineseChar(c) THEN "han"
  ELSE IF c \in 48..57 THEN "digit"
  ELSE IF c \in (97..122) \cup (65..90) THEN "latin"
  ELSE IF c \in WhiteSpace THEN "space"
  ELSE "punct"

RECURSIVE UnitsFrom(_, _, _)
UnitsFrom(s, i, acc) ==
  IF i > Len(s) THEN acc
  ELSE IF /\ acc # <<>>
          /\ UnitClass(s[i]) # "han"
          /\ UnitClass(acc[Len(acc)][1]) = UnitClass(s[i])
       THEN UnitsFrom(s, i + 1,
                      [acc EXCEPT ![Len(acc)] = Append(acc[Len(acc)], s[i])])
       ELSE UnitsFrom(s, i + 1, Append(acc, <<s[i]>>))

Units(s) == UnitsFrom(s, 1, <<>>)

\* the syllables the library knows for the Chinese characters of the model:
\* 你 is ni3; 装 is zhuang1 or zhuang4 depending on context
Syllables(c) ==
  IF c = 20320 THEN {<<110, 464>>}
  ELSE IF c = 35013 THEN {<<122, 104, 117, 257, 110, 103>>,
                          <<122, 104, 117, 224, 110, 103>>}
  ELSE {}

\* the entries the library may return for one unit: an array of candidate
\* strings.  A Chinese character gives one syllable, or an empty array when
\* the library has no reading for it in this context (only 你 here); every
\* other unit is passed through unchanged.
UnitEntries(u) ==
  IF UnitClass(u[1]) = "han"
  THEN {<<syl>> : syl \in Syllables(u[1])} \cup (IF u[1] = 20320 THEN {<<>>} ELSE {})
  ELSE {<<u>>}

RECURSIVE Product(_)
Product(sets) ==
  IF sets = <<>> THEN {<<>>}
  ELSE {<<h>> \o t : h \in Head(sets), t \in Product(Tail(sets))}

\* every value the call pinyinFn(sentence, {style, segment}) can take:
\* it throws, or it returns one entry per unit
PinyinOutcomes(sentence) ==
  LET units == Units(sentence)
  IN {[threw |-> TRUE, result |-> <<>>]} \cup
     {[threw |-> FALSE, result |-> r] :
        r \in Product([k \in 1..Len(units) |-> UnitEntries(units[k])])}

\* Array.prototype.join(' ')
RECURSIVE Join(_)
Join(toks) ==
  IF toks = <<>> THEN <<>>
  ELSE IF Len(toks) = 1 THEN toks[1]
  ELSE toks[1] \o <<32>> \o Join(Tail(toks))

\* lines 127-129: .map(p => p[0] || '').filter(isPinyin)
RECURSIVE PinyinParts(_)
PinyinParts(pinyinResult) ==
  IF pinyinResult = <<>> THEN <<>>
  ELSE LET p == Head(pinyinResult)
           first == IF p = <<>> THEN <<>> ELSE p[1]
       IN (IF isPinyin(first) THEN <<first>> ELSE <<>>) \o
          PinyinParts(Tail(pinyinResult))

\* lines 117-134: the pinyin string of a sentence for an outcome of the call
PinyinStrOf(outcome) ==
  IF outcome.threw THEN <<>> ELSE Join(PinyinParts(outcome.result))

(***************************************************************************)
(* processSentences, lines 136-144: translation                            *)
(***************************************************************************)
\* '(Translation unavailable)'
TranslationUnavailable ==
  <<40, 84, 114, 97, 110, 115, 108, 97, 116, 105, 111, 110, 32, 117, 110, 97,
    118, 97, 105, 108, 97, 98, 108, 101, 41>>

\* the texts the translation service answers with: "Hi" or "Yo"
TranslationTexts == {<<72, 105>>, <<89, 111>>}

\* lines 137-144: the english field for an outcome of the call translate()
EnglishOf(outcome) ==
  IF outcome.threw THEN TranslationUnavailable ELSE outcome.text

(***************************************************************************)
(* State                                                                   *)
(***************************************************************************)
VARIABLES
  chineseText,   \* the argument of the call
  azureOpenAI,   \* TRUE when the language-model client is configured (lines 13-19)
  pc,            \* where the call stands
  sentences,     \* processSentences: the local array sentences
  idx,           \* processSentences: index of the sentence of the current iteration
  pinyinStr,     \* processSentences: the local pinyinStr of the current iteration
  results,       \* processSentences: the local array results; the value returned
  pinyinLog,     \* the outcome of every call of pinyinFn, in call order
  translateLog,  \* the text of every call of translate, in call order
  translateReplies, \* how every settled call of translate settled
  summary,       \* the value generateSummary returned
  vocabulary,    \* the value extractVocabulary returned
  llmLog,        \* the purpose of every call of azureOpenAI.chat.completions.create
  llmReplies,    \* how every settled call of chat.completions.create settled
  raised,        \* TRUE when the last function called threw to its caller
  langFrom,      \* translateText: the argument from
  langTo,        \* translateText: the argument to
  translated,    \* the value translateText returned
  article,       \* the row of the articles table the request is about
  vocabTable,    \* the rows of the vocabulary table, in id order
  links,         \* the rows of the article_vocabulary table
  response,      \* the HTTP response of the process request
  char,          \* the classifiers: the string they are given
  verdict,       \* the classifiers: what each copy answered
  renderInput,   \* the renderer: the sentence it is given
  rendered,      \* the renderer: the elements it returned
  progress,      \* the rows of user_vocabulary_progress, by (user, vocabulary)
  hook,          \* useSpeechRecognition: its state, its refs and its timers
  engine,        \* the browser's recognition instances
  trace,         \* what the last step of the hook was, and whether the user stopped it
  articles,      \* the server under load: the rows of the articles table, in id order
  requests       \* the server under load: the process requests in flight, by slot

vars == <<chineseText, azureOpenAI, pc, sentences, idx, pinyinStr, results,
          pinyinLog, translateLog, translateReplies, summary, vocabulary,
          llmLog, llmReplies,
          raised, langFrom, langTo, translated, article, vocabTable, links,
          response, char, verdict, renderInput, rendered,
          progress, hook, engine, trace, articles, requests>>

sentenceVars == <<sentences, idx, pinyinStr, results, pinyinLog, translateLog,
                  translateReplies>>
llmVars == <<summary, vocabulary, llmLog>>
translateTextVars == <<langFrom, langTo, translated>>
routeVars == <<article, vocabTable, links, response>>
classifyVars == <<char, verdict>>
renderVars == <<renderInput, rendered>>
progressVars == <<progress>>
speechVars == <<hook, engine, trace>>
serverVars == <<articles, requests>>
laterVars == <<renderVars, progressVars, speechVars, serverVars>>

\* '[]' parsed: the empty array
EmptyList == [json |-> "array", items |-> <<>>]

InitCommon ==
  /\ pc = "idle"
  /\ sentences = <<>>
  /\ idx = 0
  /\ pinyinStr = <<>>
  /\ results = <<>>
  /\ pinyinLog = <<>>
  /\ translateLog = <<>>
  /\ translateReplies = <<>>
  /\ summary = <<>>
  /\ vocabulary = EmptyList
  /\ llmLog = <<>>
  /\ llmReplies = <<>>
  /\ raised = FALSE

\* no call of translateText
NoTranslateText ==
  /\ langFrom = <<>>
  /\ langTo = <<>>
  /\ translated = <<>>

\* no article
NoArticle ==
  [id |-> 0, transcription_original |-> <<>>, transcription_edited |-> <<>>,
   summary |-> <<>>, sentences_json |-> <<>>]

\* no response sent
NoResponse == [status |-> 0, summary |-> <<>>, sentences |-> <<>>, vocabulary |-> <<>>]

\* no process request
NoRequest ==
  /\ article = NoArticle
  /\ vocabTable = <<>>
  /\ links = {}
  /\ response = NoResponse

\* no classifier has answered
NoVerdict == [asked |-> {}, server |-> FALSE, article |-> FALSE, card |-> FALSE]

\* no character to classify
NoClassify ==
  /\ char = <<>>
  /\ verdict = NoVerdict

\* no sentence to render
NoSentence == [chinese |-> <<>>, pinyin |-> <<>>]

\* nothing rendered
NoRender ==
  /\ renderInput = NoSentence
  /\ rendered = <<>>

\* the users and the vocabulary of the progress table
Users == {1, 2}
VocabularyIds == {1}

\* no row of user_vocabulary_progress
NoRow == [present |-> FALSE, times_reviewed |-> 0, times_correct |-> 0,
          status |-> "learning"]

\* the empty progress table
NoProgress == progress = [key \in Users \X VocabularyIds |-> NoRow]

\* useSpeechRecognition after its first render and effects (lines 289-304,
\* 363-456): not listening, no error, the recognition instance created; 0
\* stands for null in restartTimeoutRef and pendingRestartDelayRef
MountedHook ==
  [isListening |-> FALSE, error |-> "none", syncedListening |-> FALSE,
   shouldRestartRef |-> FALSE, restartTimeoutRef |-> 0, restartAttemptsRef |-> 0,
   pendingRestartDelayRef |-> 0, isMountedRef |-> TRUE, timers |-> {},
   mounted |-> TRUE]

\* the recognition instance as created: not started; no aborted instance
\* has an end event to deliver; no call of start() yet
IdleEngine == [state |-> "idle", staleEnd |-> FALSE, startCalls |-> 0]

\* nothing has happened to the hook
NoTrace == [lastEvent |-> "mount", endedBy |-> "no", userStopped |-> FALSE]

\* the hook is mounted and not used
NoSpeech ==
  /\ hook = MountedHook
  /\ engine = IdleEngine
  /\ trace = NoTrace

\* most process requests the server works on at a time
MaxInFlight == 2

\* a slot that holds no process request
NoProcess ==
  [pc |-> "idle", id |-> 0, text |-> <<>>, summary |-> <<>>, sentences |-> <<>>,
   idx |-> 0, pinyinStr |-> <<>>, results |-> <<>>, vocabulary |-> EmptyList]

\* no article in the table and no request in flight
NoServer ==
  /\ articles = <<>>
  /\ requests = [r \in 1..MaxInFlight |-> NoProcess]

\* the client and the other routes are not in use
NoLater ==
  /\ NoRender
  /\ NoProgress
  /\ NoSpeech
  /\ NoServer

(***************************************************************************)
(* processSentences (lines 73-154).  The function runs without interruption *)
(* up to the await of line 139 and from one await to the next.              *)
(***************************************************************************)
\* lines 113-139: the iteration for sentence k up to the await of translate
BeginIterationNoCatch(sents, k) ==
  \E outcome \in PinyinOutcomes(sents[k]) :
    /\ pinyinLog' = Append(pinyinLog, outcome)
    /\ idx' = k
    /\ IF outcome.threw
       THEN /\ pc' = "sentencesDone"
            /\ UNCHANGED <<pinyinStr, translateLog>>
       ELSE /\ pinyinStr' = PinyinStrOf(outcome)
            /\ translateLog' = Append(translateLog, sents[k])
            /\ pc' = "awaitTranslate"

BeginIterationAllAtOnce(sents, k) ==
  \E outcome \in PinyinOutcomes(sents[k]) :
    /\ pinyinLog' = Append(pinyinLog, outcome)
    /\ pinyinStr' = PinyinStrOf(outcome)
    /\ translateLog' = translateLog \o SubSeq(sents, k, Len(sents))
    /\ idx' = k
    /\ pc' = "awaitTranslate"

BeginIterationStale(sents, k) ==
  \E outcome \in PinyinOutcomes(sents[k]) :
    /\ pinyinLog' = Append(pinyinLog, outcome)
    /\ pinyinStr' = IF outcome.threw THEN pinyinStr ELSE PinyinStrOf(outcome)
    /\ translateLog' = Append(translateLog, sents[k])
    /\ idx' = k
    /\ pc' = "awaitTranslate"

BeginIteration(sents, k) ==
  \E outcome \in PinyinOutcomes(sents[k]) :
    /\ pinyinLog' = Append(pinyinLog, outcome)
    /\ pinyinStr' = PinyinStrOf(outcome)
    /\ translateLog' = Append(translateLog, sents[k])
    /\ idx' = k
    /\ pc' = "awaitTranslate"

\* lines 73-139: the call, up to the first await or to the return
ProcessSentencesCall(from) ==
  /\ pc = from
  /\ sentences' = Segment(chineseText)
  /\ IF Len(sentences') = 0
     THEN /\ pc' = "sentencesDone"
          /\ UNCHANGED <<idx, pinyinStr, pinyinLog, translateLog>>
     ELSE BeginIteration(sentences', 1)
  /\ UNCHANGED <<chineseText, azureOpenAI, results, translateReplies>>

\* processSentences called on its own
ProcessSentences ==
  /\ ProcessSentencesCall("idle")
  /\ UNCHANGED <<llmVars, llmReplies, raised, translateTextVars, routeVars, classifyVars, laterVars>>

\* lines 146-153 and the next iteration: what follows the await of line 139
EndIteration(outcome) ==
  /\ translateReplies' = Append(translateReplies, outcome)
  /\ results' = Append(results, [chinese |-> sentences[idx],
                                 pinyin  |-> pinyinStr,
                                 english |-> EnglishOf(outcome)])
  /\ IF idx < Len(sentences)
     THEN BeginIteration(sentences, idx + 1)
     ELSE /\ pc' = "sentencesDone"
          /\ UNCHANGED <<idx, pinyinStr, pinyinLog, translateLog>>
  /\ UNCHANGED <<chineseText, azureOpenAI, sentences, llmVars, llmReplies, raised,
                 translateTextVars, routeVars, classifyVars, laterVars>>

\* line 139-140: translate resolves
TranslateResolves ==
  /\ pc = "awaitTranslate"
  /\ \E t \in TranslationTexts : EndIteration([threw |-> FALSE, text |-> t])

\* lines 141-144: translate rejects
TranslateRejectsRetry ==
  /\ pc = "awaitTranslate"
  /\ IF Len(translateLog) = idx
     THEN /\ translateLog' = Append(translateLog, sentences[idx])
          /\ translateReplies' = Append(translateReplies, [threw |-> TRUE, text |-> <<>>])
          /\ UNCHANGED <<chineseText, azureOpenAI, pc, sentences, idx, pinyinStr,
                         results, pinyinLog, llmVars, llmReplies, raised,
                         translateTextVars, routeVars, classifyVars, laterVars>>
     ELSE EndIteration([threw |-> TRUE, text |-> <<>>])

TranslateRejects ==
  /\ pc = "awaitTranslate"
  /\ EndIteration([threw |-> TRUE, text |-> <<>>])

Init ==
  /\ chineseText \in Texts
  /\ azureOpenAI = FALSE
  /\ InitCommon
  /\ NoTranslateText
  /\ NoRequest
  /\ NoClassify
  /\ NoLater

Next == ProcessSentences \/ TranslateResolves \/ TranslateRejects

Spec == Init /\ [][Next]_vars

(***************************************************************************)
(* The language-model service: azureOpenAI.chat.completions.create          *)
(***************************************************************************)
\* A call throws, or resolves to a result whose choices array is empty or
\* holds one message, with or without content.
LLMResponses(contents) ==
  {[threw |-> TRUE,  choices |-> <<>>], [threw |-> FALSE, choices |-> <<>>],
   [threw |-> FALSE, choices |-> <<[hasContent |-> FALSE, content |-> <<>>]>>]}
  \cup {[threw |-> FALSE, choices |-> <<[hasContent |-> TRUE, content |-> c]>>] :
          c \in contents}

\* result.choices[0]?.message?.content?.trim(), '' standing for undefined
\* (both are falsy, and only truthiness is used at lines 63 and 201)
TrimmedContent(resp) ==
  IF resp.choices = <<>> \/ ~resp.choices[1].hasContent
  THEN <<>>
  ELSE Trim(resp.choices[1].content)

(***************************************************************************)
(* generateSummary (lines 42-68)                                           *)
(***************************************************************************)
\* 'Summary not available (Azure OpenAI not configured)'
SummaryNotConfigured ==
  <<83, 117, 109, 109, 97, 114, 121, 32, 110, 111, 116, 32, 97, 118, 97, 105,
    108, 97, 98, 108, 101, 32, 40, 65, 122, 117, 114, 101, 32, 79, 112, 101,
    110, 65, 73, 32, 110, 111, 116, 32, 99, 111, 110, 102, 105, 103, 117, 114,
    101, 100, 41>>

\* 'Summary generation failed'
SummaryFailed ==
  <<83, 117, 109, 109, 97, 114, 121, 32, 103, 101, 110, 101, 114, 97, 116, 105,
    111, 110, 32, 102, 97, 105, 108, 101, 100>>

\* contents the service answers a summary request with:
\* '', ' ', 'OK', ' OK\n'
SummaryContents == {<<>>, <<32>>, <<79, 75>>, <<32, 79, 75, 10>>}

\* lines 47-67: the value returned for a response of the service
SummaryOf(resp) ==
  IF resp.threw THEN SummaryFailed
  ELSE IF TrimmedContent(resp) = <<>> THEN SummaryFailed
  ELSE TrimmedContent(resp)

\* lines 42-61: the call, up to the await or to the early return
GenerateSummaryAlwaysCalls ==
  /\ pc = "idle"
  /\ llmLog' = Append(llmLog, [purpose |-> "summary", text |-> chineseText])
  /\ pc' = "awaitSummary"
  /\ UNCHANGED <<summary, chineseText, azureOpenAI, vocabulary, sentenceVars,
                 llmReplies, raised, translateTextVars, routeVars, classifyVars, laterVars>>

GenerateSummaryCall(from) ==
  /\ pc = from
  /\ IF ~azureOpenAI
     THEN /\ summary' = SummaryNotConfigured
          /\ pc' = "summaryDone"
          /\ UNCHANGED llmLog
     ELSE /\ llmLog' = Append(llmLog, [purpose |-> "summary", text |-> chineseText])
          /\ pc' = "awaitSummary"
          /\ UNCHANGED summary
  /\ UNCHANGED <<chineseText, azureOpenAI, vocabulary, llmReplies, raised>>

\* generateSummary called on its own
GenerateSummary ==
  /\ GenerateSummaryCall("idle")
  /\ UNCHANGED <<sentenceVars, translateTextVars, routeVars, classifyVars, laterVars>>

\* lines 48-67: the service call settles; the catch of lines 64-67 covers
\* the whole of the call and of the reading of its result
SummaryCallSettlesNoCatch ==
  /\ pc = "awaitSummary"
  /\ \E resp \in LLMResponses(SummaryContents) :
       /\ llmReplies' = Append(llmReplies, resp)
       /\ raised' = resp.threw
       /\ summary' = IF resp.threw THEN summary ELSE SummaryOf(resp)
  /\ pc' = "summaryDone"
  /\ UNCHANGED <<chineseText, azureOpenAI, vocabulary, llmLog, sentenceVars,
                 translateTextVars, routeVars, classifyVars, laterVars>>

SummaryCallSettles ==
  /\ pc = "awaitSummary"
  /\ \E resp \in LLMResponses(SummaryContents) :
       /\ llmReplies' = Append(llmReplies, resp)
       /\ summary' = SummaryOf(resp)
  /\ raised' = FALSE
  /\ pc' = "summaryDone"
  /\ UNCHANGED <<chineseText, azureOpenAI, vocabulary, llmLog, sentenceVars,
                 translateTextVars, routeVars, classifyVars, laterVars>>

(***************************************************************************)
(* extractVocabulary (lines 159-209)                                       *)
(***************************************************************************)
\* The text of a whole JSON document is one negative code:
\*   -1  an array of two objects carrying the five fields
\*   -2  an object
\*   -3  a number
\*   -4  an array whose second object lacks the field emoji
\*   -5  prose, not JSON
\*   -6  an array whose second object lacks the field chinese
JsonDocs == {-1, -2, -3, -4, -6}

\* the object the prompt gives as example (lines 188-194), strings shortened:
\* chinese 你, pinyin nǐ, english 'a', example 你。, emoji U+1F3AC
GoodItem ==
  [chinese |-> <<20320>>, pinyin |-> <<110, 464>>, english |-> <<97>>,
   example |-> <<20320, 12290>>, emoji |-> <<127916>>,
   fields |-> {"chinese", "pinyin", "english", "example", "emoji"}]

\* a second object: chinese 装
OtherItem == [GoodItem EXCEPT !.chinese = <<35013>>]

\* an object without emoji
ItemWithoutEmoji ==
  [OtherItem EXCEPT !.emoji = <<>>,
                    !.fields = {"chinese", "pinyin", "english", "example"}]

\* an object without chinese
ItemWithoutChinese ==
  [OtherItem EXCEPT !.chinese = <<>>,
                    !.fields = {"pinyin", "english", "example", "emoji"}]

\* JSON.parse of a document
JsonValue(doc) ==
  IF doc = -1 THEN [json |-> "array", items |-> <<GoodItem, OtherItem>>]
  ELSE IF doc = -2 THEN [json |-> "object", items |-> <<>>]
  ELSE IF doc = -3 THEN [json |-> "number", items |-> <<>>]
  ELSE IF doc = -6 THEN [json |-> "array", items |-> <<GoodItem, ItemWithoutChinese>>]
  ELSE [json |-> "array", items |-> <<GoodItem, ItemWithoutEmoji>>]

\* JSON.parse succeeds on '[]' and on one document; it throws on anything else
CanParse(jsonStr) ==
  \/ jsonStr = <<91, 93>>
  \/ Len(jsonStr) = 1 /\ jsonStr[1] \in JsonDocs

JsonParse(jsonStr) ==
  IF jsonStr = <<91, 93>> THEN EmptyList ELSE JsonValue(jsonStr[1])

\* '```json' and '```'
FenceJson == <<96, 96, 96, 106, 115, 111, 110>>
Fence == <<96, 96, 96>>

StartsWithAt(s, i, prefix) ==
  /\ i + Len(prefix) - 1 <= Len(s)
  /\ SubSeq(s, i, i + Len(prefix) - 1) = prefix

\* line 203: text.replace(/```json\n?|\n?```/g, '')
RECURSIVE StripFencesFrom(_, _)
StripFencesFrom(s, i) ==
  IF i > Len(s) THEN <<>>
  ELSE IF StartsWithAt(s, i, FenceJson)
       THEN StripFencesFrom(s, IF i + 7 <= Len(s) /\ s[i + 7] = 10 THEN i + 8 ELSE i + 7)
  ELSE IF StartsWithAt(s, i, <<10>> \o Fence) THEN StripFencesFrom(s, i + 4)
  ELSE IF StartsWithAt(s, i, Fence) THEN StripFencesFrom(s, i + 3)
  ELSE <<s[i]>> \o StripFencesFrom(s, i + 1)

StripFences(s) == StripFencesFrom(s, 1)

\* contents the service answers a vocabulary request with
VocabularyContents ==
  {<<>>, <<91, 93>>, <<-1>>, <<32, -1, 10>>, <<-2>>, <<-3>>, <<-4>>, <<-5>>,
   <<-6>>,
   FenceJson \o <<10, -1, 10>> \o Fence,
   Fence \o <<10, -1, 10>> \o Fence,
   FenceJson \o <<10>> \o Fence,
   <<-5, 10>> \o FenceJson \o <<10, -1, 10>> \o Fence}

\* lines 164-208: the value returned for a response of the service
VocabularyOf(resp) ==
  IF resp.threw THEN EmptyList
  ELSE LET text    == IF TrimmedContent(resp) = <<>> THEN <<91, 93>>
                      ELSE TrimmedContent(resp)
           jsonStr == Trim(StripFences(text))
       IN IF CanParse(jsonStr) THEN JsonParse(jsonStr) ELSE EmptyList

\* lines 159-199: the call, up to the await or to the early return
ExtractVocabularyAlwaysCalls ==
  /\ pc = "idle"
  /\ llmLog' = Append(llmLog, [purpose |-> "vocabulary", text |-> chineseText])
  /\ pc' = "awaitVocabulary"
  /\ UNCHANGED <<vocabulary, chineseText, azureOpenAI, summary, sentenceVars,
                 llmReplies, raised, translateTextVars, routeVars, classifyVars, laterVars>>

ExtractVocabularyCall(from) ==
  /\ pc = from
  /\ IF ~azureOpenAI
     THEN /\ vocabulary' = EmptyList
          /\ pc' = "vocabularyDone"
          /\ UNCHANGED llmLog
     ELSE /\ llmLog' = Append(llmLog, [purpose |-> "vocabulary", text |-> chineseText])
          /\ pc' = "awaitVocabulary"
          /\ UNCHANGED vocabulary
  /\ UNCHANGED <<chineseText, azureOpenAI, summary, llmReplies, raised>>

\* extractVocabulary called on its own
ExtractVocabulary ==
  /\ ExtractVocabularyCall("idle")
  /\ UNCHANGED <<sentenceVars, translateTextVars, routeVars, classifyVars, laterVars>>

\* lines 165-208: the service call settles; the catch of lines 205-208
\* covers the call, the reading of its result and JSON.parse
VocabularyCallSettlesNoCatch ==
  /\ pc = "awaitVocabulary"
  /\ \E resp \in LLMResponses(VocabularyContents) :
       /\ llmReplies' = Append(llmReplies, resp)
       /\ raised' = resp.threw
       /\ vocabulary' = IF resp.threw THEN vocabulary ELSE VocabularyOf(resp)
  /\ pc' = "vocabularyDone"
  /\ UNCHANGED <<chineseText, azureOpenAI, summary, llmLog, sentenceVars,
                 translateTextVars, routeVars, classifyVars, laterVars>>

VocabularyCallSettles ==
  /\ pc = "awaitVocabulary"
  /\ \E resp \in LLMResponses(VocabularyContents) :
       /\ llmReplies' = Append(llmReplies, resp)
       /\ vocabulary' = VocabularyOf(resp)
  /\ raised' = FALSE
  /\ pc' = "vocabularyDone"
  /\ UNCHANGED <<chineseText, azureOpenAI, summary, llmLog, sentenceVars,
                 translateTextVars, routeVars, classifyVars, laterVars>>

\* the two language-model functions, called on any short text with the
\* client configured or not
InitLLM ==
  /\ chineseText \in StringsUpTo(Alphabet, MaxLLMLen)
  /\ azureOpenAI \in BOOLEAN
  /\ InitCommon
  /\ NoTranslateText
  /\ NoRequest
  /\ NoClassify
  /\ NoLater

NextLLM ==
  \/ GenerateSummary
  \/ SummaryCallSettles
  \/ ExtractVocabulary
  \/ VocabularyCallSettles

SpecLLM == InitLLM /\ [][NextLLM]_vars

(***************************************************************************)
(* translateText (lines 231-265)                                           *)
(***************************************************************************)
\* longest text translateText is called with in SpecTranslate
MaxTranslateLen == 1

\* 'zh', 'en'
LangZhPrefix == <<122, 104>>
LangEn == <<101, 110>>

\* values of the argument from: 'zh-CN' (the default), 'zh-TW', 'zh', 'z',
\* 'en', 'ja'
FromLanguages ==
  {<<122, 104, 45, 67, 78>>, <<122, 104, 45, 84, 87>>, <<122, 104>>, <<122>>,
   <<101, 110>>, <<106, 97>>}

\* values of the argument to: 'en' (the default), 'fr', 'zh-CN'
ToLanguages == {<<101, 110>>, <<102, 114>>, <<122, 104, 45, 67, 78>>}

\* contents the service answers a dictionary request with:
\* '', ' ', 'Hi', ' Hi\n'
DictionaryContents == {<<>>, <<32>>, <<72, 105>>, <<32, 72, 105, 10>>}

\* line 233: azureOpenAI && from.startsWith('zh') && to === 'en'
UsesDictionaryAnyTarget(from, to) ==
  azureOpenAI /\ StartsWithAt(from, 1, LangZhPrefix)

UsesDictionary(from, to) ==
  azureOpenAI /\ StartsWithAt(from, 1, LangZhPrefix) /\ to = LangEn

\* lines 231-259: the call, up to its first await
TranslateText ==
  /\ pc = "idle"
  /\ IF UsesDictionary(langFrom, langTo)
     THEN /\ llmLog' = Append(llmLog, [purpose |-> "translate", text |-> chineseText])
          /\ pc' = "awaitDictionary"
          /\ UNCHANGED translateLog
     ELSE /\ translateLog' = Append(translateLog, chineseText)
          /\ pc' = "awaitGeneral"
          /\ UNCHANGED llmLog
  /\ UNCHANGED <<chineseText, azureOpenAI, sentences, idx, pinyinStr, results,
                 pinyinLog, translateReplies, summary, vocabulary, llmReplies,
                 raised, translateTextVars, routeVars, classifyVars, laterVars>>

\* lines 235-259: the language-model call settles; a non-empty translation
\* is returned, anything else (a throw is caught at line 252) goes on to the
\* call of translate
DictionarySettles ==
  /\ pc = "awaitDictionary"
  /\ \E resp \in LLMResponses(DictionaryContents) :
       /\ llmReplies' = Append(llmReplies, resp)
       /\ IF ~resp.threw /\ TrimmedContent(resp) # <<>>
          THEN /\ translated' = TrimmedContent(resp)
               /\ pc' = "translateTextDone"
               /\ UNCHANGED translateLog
          ELSE /\ translateLog' = Append(translateLog, chineseText)
               /\ pc' = "awaitGeneral"
               /\ UNCHANGED translated
  /\ raised' = FALSE
  /\ UNCHANGED <<chineseText, azureOpenAI, sentences, idx, pinyinStr, results,
                 pinyinLog, translateReplies, llmVars, langFrom, langTo,
                 routeVars, classifyVars, laterVars>>

\* lines 259-260: translate resolves
GeneralResolves ==
  /\ pc = "awaitGeneral"
  /\ \E t \in TranslationTexts :
       /\ translateReplies' = Append(translateReplies, [threw |-> FALSE, text |-> t])
       /\ translated' = t
  /\ raised' = FALSE
  /\ pc' = "translateTextDone"
  /\ UNCHANGED <<chineseText, azureOpenAI, sentences, idx, pinyinStr, results,
                 pinyinLog, translateLog, llmVars, llmReplies, langFrom, langTo,
                 routeVars, classifyVars, laterVars>>

\* lines 261-264: translate rejects
GeneralRejects ==
  /\ pc = "awaitGeneral"
  /\ translateReplies' = Append(translateReplies, [threw |-> TRUE, text |-> <<>>])
  /\ translated' = <<>>
  /\ raised' = FALSE
  /\ pc' = "translateTextDone"
  /\ UNCHANGED <<chineseText, azureOpenAI, sentences, idx, pinyinStr, results,
                 pinyinLog, translateLog, llmVars, llmReplies, langFrom, langTo,
                 routeVars, classifyVars, laterVars>>

\* translateText called on any short text for any pair of languages, with
\* the client configured or not
InitTranslate ==
  /\ chineseText \in StringsUpTo(Alphabet, MaxTranslateLen)
  /\ azureOpenAI \in BOOLEAN
  /\ langFrom \in FromLanguages
  /\ langTo \in ToLanguages
  /\ translated = <<>>
  /\ InitCommon
  /\ NoRequest
  /\ NoClassify
  /\ NoLater

NextTranslate ==
  \/ TranslateText
  \/ DictionarySettles
  \/ GeneralResolves
  \/ GeneralRejects

SpecTranslate == InitTranslate /\ [][NextTranslate]_vars

(***************************************************************************)
(* The database helpers of the process request (db.ts, in the listing of   *)
(* routes/articles.ts at lines 217-337)                                    *)
(***************************************************************************)
\* lines 275-285: the id of the row whose chinese is the given text, 0 if none
VocabularyIdOf(table, chinese) ==
  IF \E k \in 1..Len(table) : table[k].chinese = chinese
  THEN CHOOSE k \in 1..Len(table) : table[k].chinese = chinese
  ELSE 0

\* lines 275-285: getOrCreateVocabulary; ids are given in insertion order
GetOrCreateVocabulary(table, chinese) ==
  IF VocabularyIdOf(table, chinese) # 0
  THEN [table |-> table, id |-> VocabularyIdOf(table, chinese)]
  ELSE [table |-> Append(table, [id |-> Len(table) + 1, chinese |-> chinese,
                                 pinyin |-> <<>>, english |-> <<>>,
                                 example_sentence |-> <<>>, emoji |-> <<>>]),
        id |-> Len(table) + 1]

\* lines 288-319: updateVocabulary with the data the route builds from an
\* item (lines 126-131); a field the item lacks is undefined and is skipped
UpdateVocabulary(table, id, item) ==
  [table EXCEPT
     ![id] = [@ EXCEPT
       !.pinyin  = IF "pinyin" \in item.fields THEN item.pinyin ELSE @,
       !.english = IF "english" \in item.fields THEN item.english ELSE @,
       !.example_sentence = IF "example" \in item.fields THEN item.example ELSE @,
       !.emoji   = IF "emoji" \in item.fields THEN item.emoji ELSE @]]

\* lines 124-133: the loop that saves the items and links them to the
\* article; an item without chinese cannot be bound to the statement of
\* line 276 and makes the loop throw with the earlier items saved
RECURSIVE SaveItems(_, _, _, _)
SaveItems(items, articleId, table, lnk) ==
  IF items = <<>> THEN [threw |-> FALSE, table |-> table, links |-> lnk]
  ELSE LET item == Head(items)
       IN IF "chinese" \notin item.fields
          THEN [threw |-> TRUE, table |-> table, links |-> lnk]
          ELSE LET got == GetOrCreateVocabulary(table, item.chinese)
               IN SaveItems(Tail(items), articleId,
                            UpdateVocabulary(got.table, got.id, item),
                            lnk \cup {<<articleId, got.id>>})

\* lines 331-337: getVocabularyForArticle
VocabularyForArticle(table, lnk, articleId) ==
  SelectSeq(table, LAMBDA row : <<articleId, row.id>> \in lnk)

(***************************************************************************)
(* router.post('/:id/process') (routes/articles.ts, lines 89-153)          *)
(***************************************************************************)
\* longest original transcription of the article of SpecProcess
MaxArticleLen == 2

\* characters of the transcriptions of SpecProcess: 你 。 and the letter a
ArticleAlphabet == {20320, 12290, 97}

\* a transcription put by an edit: 你。a
EditedText == <<20320, 12290, 97>>

\* the rows the articles table can hold for the id of the request: none, or
\* an article as created (lines 223-238: the edited transcription starts as
\* the original, which line 53 requires to be non-empty), possibly edited
\* since (line 79) to the empty text or to another text
ArticleRows ==
  {NoArticle} \cup
  UNION {{[id |-> 1, transcription_original |-> o, transcription_edited |-> e,
           summary |-> <<>>, sentences_json |-> <<>>] :
            e \in {o, <<>>, EditedText}} :
         o \in StringsUpTo(ArticleAlphabet, MaxArticleLen) \ {<<>>}}

\* the vocabulary table before the request: empty, or holding 你 already
VocabularyTables ==
  {<<>>,
   <<[id |-> 1, chinese |-> <<20320>>, pinyin |-> <<110, 105>>,
      english |-> <<>>, example_sentence |-> <<>>, emoji |-> <<>>]>>}

\* '(Summary unavailable - check Gemini API key)'
SummaryUnavailable ==
  <<40, 83, 117, 109, 109, 97, 114, 121, 32, 117, 110, 97, 118, 97, 105,
    108, 97, 98, 108, 101, 32, 45, 32, 99, 104, 101, 99, 107, 32, 71, 101,
    109, 105, 110, 105, 32, 65, 80, 73, 32, 107, 101, 121, 41>>

\* lines 91-98: the article is looked up; none gives 404
LookupArticle ==
  /\ pc = "request"
  /\ IF article.id = 0
     THEN /\ response' = [NoResponse EXCEPT !.status = 404]
          /\ pc' = "responded"
          /\ UNCHANGED chineseText
     ELSE /\ chineseText' = IF article.transcription_edited # <<>>
                            THEN article.transcription_edited
                            ELSE article.transcription_original
          /\ pc' = "lookedUp"
          /\ UNCHANGED response
  /\ UNCHANGED <<azureOpenAI, sentenceVars, llmVars, llmReplies, raised,
                 translateTextVars, article, vocabTable, links, classifyVars, laterVars>>

\* lines 100-104: generateSummary is called and awaited
RouteGenerateSummary ==
  /\ GenerateSummaryCall("lookedUp")
  /\ UNCHANGED <<sentenceVars, translateTextVars, routeVars, classifyVars, laterVars>>

\* lines 105-112: a throw of generateSummary is replaced by a placeholder,
\* then processSentences is called and awaited
RouteProcessSentences ==
  /\ ProcessSentencesCall("summaryDone")
  /\ summary' = IF raised THEN SummaryUnavailable ELSE summary
  /\ raised' = FALSE
  /\ UNCHANGED <<vocabulary, llmLog, llmReplies, translateTextVars, routeVars,
                 classifyVars, laterVars>>

\* lines 114-118: extractVocabulary is called and awaited
RouteExtractVocabulary ==
  /\ ExtractVocabularyCall("sentencesDone")
  /\ UNCHANGED <<sentenceVars, translateTextVars, routeVars, classifyVars, laterVars>>

\* lines 119-152: the vocabulary is saved and linked, the article updated
\* and the response sent; any throw on the way gives 500 (lines 147-151)
SaveAndRespond ==
  /\ pc = "vocabularyDone"
  /\ LET vocabularyItems == IF raised THEN EmptyList ELSE vocabulary
         iterable == vocabularyItems.json = "array"
         saved == IF iterable
                  THEN SaveItems(vocabularyItems.items, article.id, vocabTable, links)
                  ELSE [threw |-> TRUE, table |-> vocabTable, links |-> links]
     IN /\ vocabTable' = saved.table
        /\ links' = saved.links
        /\ IF saved.threw
           THEN /\ response' = [NoResponse EXCEPT !.status = 500]
                /\ UNCHANGED article
           ELSE /\ article' = [article EXCEPT !.summary = summary,
                                              !.sentences_json = <<results>>]
                /\ response' = [status |-> 200, summary |-> summary,
                                sentences |-> results,
                                vocabulary |->
                                  VocabularyForArticle(saved.table, saved.links,
                                                       article.id)]
  /\ pc' = "responded"
  /\ raised' = FALSE
  /\ UNCHANGED <<chineseText, azureOpenAI, sentenceVars, llmVars, llmReplies,
                 translateTextVars, classifyVars, laterVars>>

\* one process request, on any article row, with the client configured or not
InitProcess ==
  /\ chineseText = <<>>
  /\ azureOpenAI \in BOOLEAN
  /\ article \in ArticleRows
  /\ vocabTable \in VocabularyTables
  /\ links = {}
  /\ response = NoResponse
  /\ pc = "request"
  /\ sentences = <<>>
  /\ idx = 0
  /\ pinyinStr = <<>>
  /\ results = <<>>
  /\ pinyinLog = <<>>
  /\ translateLog = <<>>
  /\ translateReplies = <<>>
  /\ summary = <<>>
  /\ vocabulary = EmptyList
  /\ llmLog = <<>>
  /\ llmReplies = <<>>
  /\ raised = FALSE
  /\ NoTranslateText
  /\ NoClassify
  /\ NoLater

NextProcess ==
  \/ LookupArticle
  \/ RouteGenerateSummary
  \/ SummaryCallSettles
  \/ RouteProcessSentences
  \/ TranslateResolves
  \/ TranslateRejects
  \/ RouteExtractVocabulary
  \/ VocabularyCallSettles
  \/ SaveAndRespond

SpecProcess == InitProcess /\ [][NextProcess]_vars

(***************************************************************************)
(* The three copies of the Chinese-character test.  A string is the        *)
(* sequence of its UTF-16 code units, as JavaScript holds it.              *)
(***************************************************************************)
\* how far around each end of a range the code points are sampled
ClassifyRadius == 2

\* String.prototype.codePointAt: the code point starting at a position, a
\* surrogate pair read as one code point, a lone surrogate as itself;
\* -1 stands for undefined
CharCodeAt(str, pos) ==
  IF pos + 1 > Len(str) THEN -1 ELSE str[pos + 1]

CodePointAt(str, pos) ==
  IF pos + 1 > Len(str) THEN -1
  ELSE LET first == str[pos + 1]
       IN IF first >= 55296 /\ first <= 56319 /\ pos + 2 <= Len(str)
             /\ str[pos + 2] >= 56320 /\ str[pos + 2] <= 57343
          THEN 65536 + (first - 55296) * 1024 + (str[pos + 2] - 56320)
          ELSE first

\* value || 0
OrZero(value) == IF value = -1 THEN 0 ELSE value

\* ai.ts, lines 106-111: the server's copy, on a string
ServerIsChineseChar(ch) == isChineseChar(OrZero(CodePointAt(ch, 0)))

\* the sentence view, lines 328-333 of its listing
ArticleIsChineseChar(ch) ==
  LET code == OrZero(CodePointAt(ch, 0))
  IN \/ (code >= 19968 /\ code <= 40959)
     \/ (code >= 13312 /\ code <= 19903)
     \/ (code >= 131072 /\ code <= 173791)

\* VocabularyCard.tsx, lines 147-152: the filter of the characters to draw
CardIsChineseChar(ch) ==
  LET code == OrZero(CodePointAt(ch, 0))
  IN \/ (code >= 19968 /\ code <= 40959)
     \/ (code >= 13312 /\ code <= 19903)
     \/ (code >= 131072 /\ code <= 173791)

\* the UTF-16 form of a code point
Utf16(cp) ==
  IF cp < 65536 THEN <<cp>>
  ELSE <<55296 + ((cp - 65536) \div 1024), 56320 + ((cp - 65536) % 1024)>>

\* the ends of the three ranges
RangeEnds == {13312, 19903, 19968, 40959, 131072, 173791}

\* code points elsewhere: NUL, a, 你, U+FFFF, U+10000, U+1F3AC, U+2A700 (the
\* first of Extension C), U+10FFFF, and the lone surrogates U+D840, U+DBFF,
\* U+DC00 and U+DFFF
OtherCodePoints ==
  {0, 97, 20320, 65535, 65536, 127916, 173824, 1114111, 55360, 56319, 56320, 57343}

SampleCodePoints ==
  UNION {(e - ClassifyRadius)..(e + ClassifyRadius) : e \in RangeEnds}
    \cup OtherCodePoints

\* the strings given to the test: the empty string, one character, or two
ClassifyInputs ==
  {<<>>} \cup {Utf16(cp) : cp \in SampleCodePoints}
    \cup {Utf16(a) \o Utf16(b) : a, b \in {20320, 97, 131072, 55360}}

\* the server's copy is applied
ServerClassifies ==
  /\ "server" \notin verdict.asked
  /\ verdict' = [verdict EXCEPT !.asked = @ \cup {"server"},
                                !.server = ServerIsChineseChar(char)]
  /\ UNCHANGED <<chineseText, azureOpenAI, pc, sentenceVars, llmVars, llmReplies,
                 raised, translateTextVars, routeVars, char, laterVars>>

\* the copy of the sentence view is applied
ArticleClassifies ==
  /\ "article" \notin verdict.asked
  /\ verdict' = [verdict EXCEPT !.asked = @ \cup {"article"},
                                !.article = ArticleIsChineseChar(char)]
  /\ UNCHANGED <<chineseText, azureOpenAI, pc, sentenceVars, llmVars, llmReplies,
                 raised, translateTextVars, routeVars, char, laterVars>>

\* the copy of the vocabulary card is applied
CardClassifies ==
  /\ "card" \notin verdict.asked
  /\ verdict' = [verdict EXCEPT !.asked = @ \cup {"card"},
                                !.card = CardIsChineseChar(char)]
  /\ UNCHANGED <<chineseText, azureOpenAI, pc, sentenceVars, llmVars, llmReplies,
                 raised, translateTextVars, routeVars, char, laterVars>>

\* the three copies are given the same string
InitClassify ==
  /\ chineseText = <<>>
  /\ azureOpenAI = FALSE
  /\ InitCommon
  /\ NoTranslateText
  /\ NoRequest
  /\ char \in ClassifyInputs
  /\ verdict = NoVerdict
  /\ NoLater

NextClassify == ServerClassifies \/ ArticleClassifies \/ CardClassifies

SpecClassify == InitClassify /\ [][NextClassify]_vars

(***************************************************************************)
(* renderChineseWithPinyin of the sentence view (lines 322-364 of its      *)
(* listing)                                                                *)
(***************************************************************************)
\* longest sentence, and most pinyin tokens, given to the renderer
MaxRenderLen == 3

\* the characters of the sentences rendered: 你 装 。 a
RenderAlphabet == {20320, 35013, 12290, 97}

\* the tokens of the pinyin strings rendered: nǐ, a and the placeholder '_'
RenderTokens == {<<110, 464>>, <<97>>, <<95>>}

\* the sentences the view is given: a non-empty chinese text, and a pinyin
\* string as processSentences builds it (ai.ts lines 126-130): tokens
\* without white space joined by single spaces, possibly none
RenderInputs ==
  {[chinese |-> c, pinyin |-> Join(toks)] :
     c \in StringsUpTo(RenderAlphabet, MaxRenderLen) \ {<<>>},
     toks \in StringsUpTo(RenderTokens, MaxRenderLen)}

\* the first position from k on that holds no white space
RECURSIVE SkipWhiteSpace(_, _)
SkipWhiteSpace(str, k) ==
  IF k <= Len(str) /\ str[k] \in WhiteSpace THEN SkipWhiteSpace(str, k + 1) ELSE k

\* line 325: String.prototype.split(/\s+/)
RECURSIVE SplitWhiteSpaceFrom(_, _, _)
SplitWhiteSpaceFrom(str, k, cur) ==
  IF k > Len(str) THEN <<cur>>
  ELSE IF str[k] \in WhiteSpace
       THEN <<cur>> \o SplitWhiteSpaceFrom(str, SkipWhiteSpace(str, k), <<>>)
       ELSE SplitWhiteSpaceFrom(str, k + 1, Append(cur, str[k]))

SplitWhiteSpace(str) == SplitWhiteSpaceFrom(str, 1, <<>>)

\* lines 338-362: the map over the characters, pinyinIndex counting the
\* Chinese characters met so far
RECURSIVE RenderFromEveryChar(_, _, _, _)
RenderFromEveryChar(chars, k, pinyinParts, pinyinIndex) ==
  IF k > Len(chars) THEN <<>>
  ELSE IF ArticleIsChineseChar(Utf16(chars[k]))
       THEN LET pinyin == IF pinyinIndex + 1 <= Len(pinyinParts)
                          THEN pinyinParts[pinyinIndex + 1] ELSE <<>>
                displayPinyin == IF pinyin = <<95>> THEN <<>> ELSE pinyin
            IN <<[char |-> chars[k], ruby |-> TRUE, rt |-> displayPinyin]>>
               \o RenderFromEveryChar(chars, k + 1, pinyinParts, pinyinIndex + 1)
       ELSE <<[char |-> chars[k], ruby |-> FALSE, rt |-> <<>>]>>
            \o RenderFromEveryChar(chars, k + 1, pinyinParts, pinyinIndex + 1)

RECURSIVE RenderFrom(_, _, _, _)
RenderFrom(chars, k, pinyinParts, pinyinIndex) ==
  IF k > Len(chars) THEN <<>>
  ELSE IF ArticleIsChineseChar(Utf16(chars[k]))
       THEN LET pinyin == IF pinyinIndex + 1 <= Len(pinyinParts)
                          THEN pinyinParts[pinyinIndex + 1] ELSE <<>>
                displayPinyin == IF pinyin = <<95>> THEN <<>> ELSE pinyin
            IN <<[char |-> chars[k], ruby |-> TRUE, rt |-> displayPinyin]>>
               \o RenderFrom(chars, k + 1, pinyinParts, pinyinIndex + 1)
       ELSE <<[char |-> chars[k], ruby |-> FALSE, rt |-> <<>>]>>
            \o RenderFrom(chars, k + 1, pinyinParts, pinyinIndex)

\* the variables of the server functions and of the classifiers
earlierVars == <<chineseText, azureOpenAI, pc, sentenceVars, llmVars, llmReplies,
                 raised, translateTextVars, routeVars, classifyVars>>

\* lines 322-362: the view renders its sentence
RenderChineseWithPinyin ==
  /\ rendered = <<>>
  /\ rendered' = RenderFrom(renderInput.chinese, 1,
                            SplitWhiteSpace(renderInput.pinyin), 0)
  /\ UNCHANGED <<earlierVars, renderInput, progressVars, speechVars, serverVars>>

\* the server functions and the classifiers are not in use
EarlierIdle ==
  /\ chineseText = <<>>
  /\ azureOpenAI = FALSE
  /\ InitCommon
  /\ NoTranslateText
  /\ NoRequest
  /\ NoClassify
  /\ NoServer

\* the view is given any sentence
InitRender ==
  /\ EarlierIdle
  /\ renderInput \in RenderInputs
  /\ rendered = <<>>
  /\ NoProgress
  /\ NoSpeech

NextRender == RenderChineseWithPinyin

SpecRender == InitRender /\ [][NextRender]_vars

(***************************************************************************)
(* updateVocabularyProgress (dist/db.js, lines 173-199)                    *)
(***************************************************************************)
\* the most reviews of one row
MaxReviews == 5

\* lines 179-186: the status for the new counters; the accuracy
\* timesCorrect / timesReviewed is compared without the division
StatusWithoutMastered(timesReviewed, timesCorrect) ==
  IF timesReviewed >= 2 /\ 10 * timesCorrect >= 5 * timesReviewed
  THEN "reviewing"
  ELSE "learning"

StatusFor(timesReviewed, timesCorrect) ==
  IF timesReviewed >= 3 /\ 10 * timesCorrect >= 8 * timesReviewed
  THEN "mastered"
  ELSE IF timesReviewed >= 2 /\ 10 * timesCorrect >= 5 * timesReviewed
       THEN "reviewing"
       ELSE "learning"

\* lines 173-199: one call; an existing row has its counters raised and its
\* status computed, a missing one is inserted as 'learning'
UpdateVocabularyProgress(userId, vocabularyId, correct) ==
  LET existing == progress[<<userId, vocabularyId>>]
  IN /\ existing.times_reviewed < MaxReviews
     /\ IF existing.present
        THEN LET timesReviewed == existing.times_reviewed + 1
                 timesCorrect  == existing.times_correct + (IF correct THEN 1 ELSE 0)
             IN progress' = [progress EXCEPT ![<<userId, vocabularyId>>] =
                               [present |-> TRUE,
                                times_reviewed |-> timesReviewed,
                                times_correct |-> timesCorrect,
                                status |-> StatusFor(timesReviewed, timesCorrect)]]
        ELSE progress' = [progress EXCEPT ![<<userId, vocabularyId>>] =
                            [present |-> TRUE, times_reviewed |-> 1,
                             times_correct |-> IF correct THEN 1 ELSE 0,
                             status |-> "learning"]]
     /\ UNCHANGED <<earlierVars, renderVars, speechVars, serverVars>>

\* a review answered correctly
ReviewCorrect ==
  \E u \in Users, v \in VocabularyIds : UpdateVocabularyProgress(u, v, TRUE)

\* a review answered incorrectly
ReviewIncorrect ==
  \E u \in Users, v \in VocabularyIds : UpdateVocabularyProgress(u, v, FALSE)

InitProgress ==
  /\ EarlierIdle
  /\ NoRender
  /\ NoProgress
  /\ NoSpeech

NextProgress == ReviewCorrect \/ ReviewIncorrect

SpecProgress == InitProgress /\ [][NextProgress]_vars

(***************************************************************************)
(* useSpeechRecognition (lines 283-537 of the hook's listing).  The hook   *)
(* is the record hook; a handler is an operator from the hook before it    *)
(* ran to the hook after.  An action is one task of the browser: a call by *)
(* the user, an event of the recognition instance, a timer, an effect.     *)
(***************************************************************************)
\* line 262
MAX_RESTART_ATTEMPTS == 10

\* the errors the recognition reports: three that the hook retries and one
\* that it does not
ErrorKinds == {"no-speech", "aborted", "network", "not-allowed"}

Min(a, b) == IF a < b THEN a ELSE b

\* lines 316-318, 416-418 of the cleanup, 477-479, 502-504:
\* if (restartTimeoutRef.current) clearTimeout(restartTimeoutRef.current)
ClearRestartTimeout(h) ==
  [h EXCEPT !.timers = {t \in @ : t.id # h.restartTimeoutRef}]

\* the handle setTimeout returns: one that no pending timer has and that
\* the ref does not hold
FreshHandle(h) ==
  CHOOSE n \in 1..(Cardinality(h.timers) + 2) :
    n # h.restartTimeoutRef /\ \A t \in h.timers : t.id # n

\* lines 309-337: attemptRestart up to its setTimeout; gaveUp tells that the
\* limit of restarts was met
AttemptRestartAlwaysReplaces(h, delayMs, force) ==
  LET c == ClearRestartTimeout(h)
  IN IF ~c.shouldRestartRef
     THEN [hook |-> [c EXCEPT !.pendingRestartDelayRef = 0], gaveUp |-> FALSE]
     ELSE IF c.restartAttemptsRef >= MAX_RESTART_ATTEMPTS
          THEN [hook |-> [c EXCEPT !.pendingRestartDelayRef = 0,
                                   !.error = IF c.isMountedRef THEN "stopped" ELSE @,
                                   !.isListening = IF c.isMountedRef THEN FALSE ELSE @,
                                   !.shouldRestartRef = FALSE],
                gaveUp |-> TRUE]
          ELSE [hook |-> [c EXCEPT !.pendingRestartDelayRef = delayMs,
                                   !.timers = @ \cup {[id |-> FreshHandle(c),
                                                       delayMs |-> delayMs]},
                                   !.restartTimeoutRef = FreshHandle(c)],
                gaveUp |-> FALSE]

AttemptRestart(h, delayMs, force) ==
  IF ~force /\ h.pendingRestartDelayRef # 0 /\ h.pendingRestartDelayRef > delayMs
  THEN [hook |-> h, gaveUp |-> FALSE]
  ELSE LET c == ClearRestartTimeout(h)
       IN IF ~c.shouldRestartRef
          THEN [hook |-> [c EXCEPT !.pendingRestartDelayRef = 0], gaveUp |-> FALSE]
          ELSE IF c.restartAttemptsRef >= MAX_RESTART_ATTEMPTS
               THEN [hook |-> [c EXCEPT !.pendingRestartDelayRef = 0,
                                        !.error = IF c.isMountedRef THEN "stopped" ELSE @,
                                        !.isListening = IF c.isMountedRef THEN FALSE ELSE @,
                                        !.shouldRestartRef = FALSE],
                     gaveUp |-> TRUE]
               ELSE [hook |-> [c EXCEPT !.pendingRestartDelayRef = delayMs,
                                        !.timers = @ \cup {[id |-> FreshHandle(c),
                                                            delayMs |-> delayMs]},
                                        !.restartTimeoutRef = FreshHandle(c)],
                     gaveUp |-> FALSE]

\* recognition.start(): it throws on an instance that is already started
StartThrows(e) == e.state # "idle"

\* the instance after a call of start() that did not throw, and after one
\* that threw; startCalls changes with every call
Started(e) == [e EXCEPT !.state = "starting", !.startCalls = 1 - @]
StartFailed(e) == [e EXCEPT !.startCalls = 1 - @]

\* recognition.stop() and recognition.abort(): a started instance will end
Stopped(e) == [e EXCEPT !.state = IF @ = "idle" THEN "idle" ELSE "ending"]

\* lines 448-454: recognition.onstart
OnStart(h) ==
  [h EXCEPT !.error = IF h.isMountedRef THEN "none" ELSE @,
            !.pendingRestartDelayRef = 0,
            !.restartAttemptsRef = 0]

\* lines 392-426: recognition.onerror
OnError(h, error) ==
  IF error \in {"no-speech", "aborted"}
  THEN IF h.shouldRestartRef THEN AttemptRestart(h, 100, FALSE)
       ELSE [hook |-> h, gaveUp |-> FALSE]
  ELSE IF error = "network"
  THEN IF h.shouldRestartRef
       THEN AttemptRestart([h EXCEPT !.error = IF h.isMountedRef THEN "network" ELSE @],
                           1000, TRUE)
       ELSE [hook |-> h, gaveUp |-> FALSE]
  ELSE [hook |-> [h EXCEPT !.error = IF h.isMountedRef THEN error ELSE @,
                           !.isListening = IF h.isMountedRef THEN FALSE ELSE @],
        gaveUp |-> FALSE]

\* lines 428-446: recognition.onend
OnEnd(h) ==
  IF h.shouldRestartRef
  THEN AttemptRestart(h, 100, FALSE)
  ELSE [hook |-> [h EXCEPT !.isListening = IF h.isMountedRef THEN FALSE ELSE @],
        gaveUp |-> FALSE]

\* lines 458-466: the cleanup of the effect that creates the instance
Cleanup(h) ==
  [ClearRestartTimeout(h) EXCEPT !.isMountedRef = FALSE,
                                 !.shouldRestartRef = FALSE,
                                 !.pendingRestartDelayRef = 0]

\* the label of a step that a handler or a timer took
Step(event, gaveUp) ==
  [lastEvent |-> event,
   endedBy |-> IF gaveUp THEN "limit"
               ELSE IF event = "not-allowed" THEN "fatal" ELSE "no",
   userStopped |-> trace.userStopped]

\* everything but the hook
notSpeechVars == <<earlierVars, renderVars, progressVars, serverVars>>

\* lines 470-498: the user calls startListening
StartListening ==
  /\ hook.mounted
  /\ LET h == [ClearRestartTimeout(hook) EXCEPT !.pendingRestartDelayRef = 0,
                                                !.error = "none",
                                                !.isListening = TRUE,
                                                !.shouldRestartRef = TRUE,
                                                !.restartAttemptsRef = 0]
     IN IF StartThrows(engine)
        THEN /\ hook' = AttemptRestart(h, 100, TRUE).hook
             /\ engine' = Stopped(StartFailed(engine))
        ELSE /\ hook' = h
             /\ engine' = Started(engine)
  /\ trace' = [lastEvent |-> "startListening", endedBy |-> "no",
               userStopped |-> FALSE]
  /\ UNCHANGED notSpeechVars

\* lines 500-521: the user calls stopListening
StopListeningByStateOnly ==
  /\ hook.mounted
  /\ hook' = [ClearRestartTimeout(hook) EXCEPT !.pendingRestartDelayRef = 0,
                                               !.isListening = FALSE]
  /\ engine' = Stopped(engine)
  /\ trace' = [lastEvent |-> "stopListening", endedBy |-> "no",
               userStopped |-> TRUE]
  /\ UNCHANGED notSpeechVars

StopListening ==
  /\ hook.mounted
  /\ hook' = [ClearRestartTimeout(hook) EXCEPT !.pendingRestartDelayRef = 0,
                                               !.shouldRestartRef = FALSE,
                                               !.isListening = FALSE]
  /\ engine' = Stopped(engine)
  /\ trace' = [lastEvent |-> "stopListening", endedBy |-> "no",
               userStopped |-> TRUE]
  /\ UNCHANGED notSpeechVars

\* lines 338-353: a restart timer fires
RestartTimerFires ==
  /\ \E t \in hook.timers :
       LET h == [hook EXCEPT !.timers = @ \ {t}, !.pendingRestartDelayRef = 0]
           counted == [h EXCEPT !.restartAttemptsRef = @ + 1]
           retry == AttemptRestart(counted, Min(t.delayMs * 2, 2000), TRUE)
       IN IF ~h.shouldRestartRef
          THEN /\ hook' = h
               /\ trace' = Step("timer", FALSE)
               /\ UNCHANGED engine
          ELSE IF StartThrows(engine)
          THEN /\ hook' = retry.hook
               /\ engine' = StartFailed(engine)
               /\ trace' = Step("timer", retry.gaveUp)
          ELSE /\ hook' = counted
               /\ engine' = Started(engine)
               /\ trace' = Step("timer", FALSE)
  /\ UNCHANGED notSpeechVars

\* the instance reports that it has started
RecognitionStarts ==
  /\ engine.state = "starting"
  /\ engine' = [engine EXCEPT !.state = "running"]
  /\ hook' = OnStart(hook)
  /\ trace' = Step("start", FALSE)
  /\ UNCHANGED notSpeechVars

\* the instance reports an error; it will end
RecognitionFails ==
  /\ engine.state # "idle"
  /\ \E error \in ErrorKinds :
       /\ hook' = OnError(hook, error).hook
       /\ trace' = Step(error, OnError(hook, error).gaveUp)
  /\ engine' = [engine EXCEPT !.state = "ending"]
  /\ UNCHANGED notSpeechVars

\* the instance reports that it has ended
RecognitionEnds ==
  /\ engine.state # "idle"
  /\ engine' = [engine EXCEPT !.state = "idle"]
  /\ hook' = OnEnd(hook).hook
  /\ trace' = Step("end", OnEnd(hook).gaveUp)
  /\ UNCHANGED notSpeechVars

\* an instance aborted by the cleanup reports that it has ended; its
\* handlers are those of lines 428-446
AbortedRecognitionEnds ==
  /\ engine.staleEnd
  /\ engine' = [engine EXCEPT !.staleEnd = FALSE]
  /\ hook' = OnEnd(hook).hook
  /\ trace' = Step("end", OnEnd(hook).gaveUp)
  /\ UNCHANGED notSpeechVars

\* lines 356-360: the effect that follows a change of isListening
SyncListeningRefs ==
  /\ hook.mounted
  /\ hook.isListening # hook.syncedListening
  /\ hook' = [hook EXCEPT !.shouldRestartRef = hook.isListening,
                          !.syncedListening = hook.isListening]
  /\ trace' = Step("sync", FALSE)
  /\ UNCHANGED <<engine, notSpeechVars>>

\* lines 363-468: language, continuous or interimResults changes (or the
\* effect is run again): the cleanup runs, the instance is aborted and
\* another one is created
RecreateRecognition ==
  /\ hook.mounted
  /\ hook' = Cleanup(hook)
  /\ engine' = [engine EXCEPT !.state = "idle",
                              !.staleEnd = @ \/ engine.state # "idle"]
  /\ trace' = Step("recreate", FALSE)
  /\ UNCHANGED notSpeechVars

\* the component is unmounted: the cleanup runs and the instance is aborted
Unmount ==
  /\ hook.mounted
  /\ hook' = [Cleanup(hook) EXCEPT !.mounted = FALSE]
  /\ engine' = Stopped(engine)
  /\ trace' = Step("unmount", FALSE)
  /\ UNCHANGED notSpeechVars

InitSpeech ==
  /\ EarlierIdle
  /\ NoRender
  /\ NoProgress
  /\ NoSpeech

NextSpeech ==
  \/ StartListening
  \/ StopListening
  \/ RestartTimerFires
  \/ RecognitionStarts
  \/ RecognitionFails
  \/ RecognitionEnds
  \/ AbortedRecognitionEnds
  \/ SyncListeningRefs
  \/ RecreateRecognition
  \/ Unmount

SpecSpeech == InitSpeech /\ [][NextSpeech]_vars

(***************************************************************************)
(* The articles routes under load (routes/articles.ts, lines 49-153).  The *)
(* database calls are synchronous, so a handler runs without interruption  *)
(* from one await to the next; between two awaits of a process request the *)
(* server handles any other request.                                       *)
(***************************************************************************)
\* most rows of the articles table
MaxArticles == 2

\* the slots of the requests in flight
Slots == 1..MaxInFlight

\* the transcription articles are created with: 你。
ServerTexts == {<<20320, 12290>>}

\* the transcriptions an edit puts: the empty text and a
ServerEdits == {<<>>, <<97>>}

\* the answer of the service to a summary request: the content 'OK'
ServerSummaryResponses ==
  {[threw |-> FALSE, choices |-> <<[hasContent |-> TRUE, content |-> <<79, 75>>]>>]}

\* the answers of the library for a sentence: a reading for every unit
ServerPinyinOutcomes(sentence) ==
  {outcome \in PinyinOutcomes(sentence) :
     /\ ~outcome.threw
     /\ \A k \in 1..Len(outcome.result) : outcome.result[k] # <<>>}

\* how a call of translate settles: with 'Hi'
ServerTranslateOutcomes == {[threw |-> FALSE, text |-> <<72, 105>>]}

\* the answers of the service to a vocabulary request: a throw, the array
\* of two full items, the array whose second item lacks chinese
ServerVocabularyResponses ==
  {[threw |-> TRUE, choices |-> <<>>]} \cup
  {[threw |-> FALSE, choices |-> <<[hasContent |-> TRUE, content |-> c]>>] :
     c \in {<<-1>>, <<-6>>}}

\* everything the articles routes leave alone
serverFrame ==
  <<chineseText, azureOpenAI, pc, sentenceVars, llmVars, llmReplies, raised,
    translateTextVars, article, response, classifyVars, renderVars,
    progressVars, speechVars>>

\* lines 49-66 and 223-238: POST / creates an article; its edited
\* transcription starts as the original
CreateArticle ==
  /\ Len(articles) < MaxArticles
  /\ \E transcription \in ServerTexts :
       articles' = Append(articles,
                          [id |-> Len(articles) + 1,
                           transcription_original |-> transcription,
                           transcription_edited |-> transcription,
                           summary |-> <<>>, sentences_json |-> <<>>])
  /\ UNCHANGED <<requests, vocabTable, links, serverFrame>>

\* lines 74-86 and 241-272: PUT /:id/transcription sets the edited
\* transcription of the row, if there is one
UpdateTranscription ==
  /\ \E id \in 1..MaxArticles, transcription \in ServerEdits :
       articles' = IF id <= Len(articles)
                   THEN [articles EXCEPT ![id].transcription_edited = transcription]
                   ELSE articles
  /\ UNCHANGED <<requests, vocabTable, links, serverFrame>>

\* lines 89-104: POST /:id/process looks the article up (404 if there is
\* none), takes its text and calls generateSummary, which returns at once
\* when the client is not configured (ai.ts lines 43-45)
BeginProcess ==
  /\ \E r \in Slots, id \in 1..MaxArticles :
       /\ requests[r].pc = "idle"
       /\ requests' =
            IF id > Len(articles) THEN requests
            ELSE [requests EXCEPT ![r] =
                    [NoProcess EXCEPT
                       !.id = id,
                       !.text = IF articles[id].transcription_edited # <<>>
                                THEN articles[id].transcription_edited
                                ELSE articles[id].transcription_original,
                       !.summary = IF azureOpenAI THEN <<>> ELSE SummaryNotConfigured,
                       !.pc = IF azureOpenAI THEN "awaitSummary" ELSE "summaryDone"]]
  /\ UNCHANGED <<articles, vocabTable, links, serverFrame>>

\* ai.ts lines 48-67: the summary call of a request settles
ProcessSummarySettles ==
  /\ \E r \in Slots, resp \in ServerSummaryResponses :
       /\ requests[r].pc = "awaitSummary"
       /\ requests' = [requests EXCEPT ![r].summary = SummaryOf(resp),
                                       ![r].pc = "summaryDone"]
  /\ UNCHANGED <<articles, vocabTable, links, serverFrame>>

\* ai.ts lines 113-139: the iteration for sentence k of a request, up to
\* the await of translate
ProcessIteration(req, k) ==
  {[req EXCEPT !.idx = k, !.pinyinStr = PinyinStrOf(outcome),
               !.pc = "awaitTranslate"] :
     outcome \in ServerPinyinOutcomes(req.sentences[k])}

\* line 112: processSentences is called on the text the request took at
\* its start
ProcessSentencesBegin ==
  /\ \E r \in Slots :
       /\ requests[r].pc = "summaryDone"
       /\ LET segmented == [requests[r] EXCEPT !.sentences = Segment(requests[r].text)]
          IN IF segmented.sentences = <<>>
             THEN requests' = [requests EXCEPT ![r] =
                                 [segmented EXCEPT !.pc = "sentencesDone"]]
             ELSE \E next \in ProcessIteration(segmented, 1) :
                    requests' = [requests EXCEPT ![r] = next]
  /\ UNCHANGED <<articles, vocabTable, links, serverFrame>>

\* ai.ts lines 139-153: the translate call of a request settles, the
\* record is pushed and the next iteration starts
ProcessTranslateSettles ==
  /\ \E r \in Slots, outcome \in ServerTranslateOutcomes :
       /\ requests[r].pc = "awaitTranslate"
       /\ LET req == requests[r]
              pushed == [req EXCEPT !.results =
                           Append(@, [chinese |-> req.sentences[req.idx],
                                      pinyin  |-> req.pinyinStr,
                                      english |-> EnglishOf(outcome)])]
          IN IF req.idx < Len(req.sentences)
             THEN \E next \in ProcessIteration(pushed, req.idx + 1) :
                    requests' = [requests EXCEPT ![r] = next]
             ELSE requests' = [requests EXCEPT ![r] =
                                 [pushed EXCEPT !.pc = "sentencesDone"]]
  /\ UNCHANGED <<articles, vocabTable, links, serverFrame>>

\* lines 114-118: extractVocabulary is called; it returns [] at once when
\* the client is not configured (ai.ts lines 160-162)
ProcessVocabularyBegin ==
  /\ \E r \in Slots :
       /\ requests[r].pc = "sentencesDone"
       /\ requests' = [requests EXCEPT
                         ![r].pc = IF azureOpenAI THEN "awaitVocabulary"
                                   ELSE "vocabularyDone"]
  /\ UNCHANGED <<articles, vocabTable, links, serverFrame>>

\* ai.ts lines 165-208: the vocabulary call of a request settles
ProcessVocabularySettles ==
  /\ \E r \in Slots, resp \in ServerVocabularyResponses :
       /\ requests[r].pc = "awaitVocabulary"
       /\ requests' = [requests EXCEPT ![r].vocabulary = VocabularyOf(resp),
                                       ![r].pc = "vocabularyDone"]
  /\ UNCHANGED <<articles, vocabTable, links, serverFrame>>

\* lines 136-139 and 241-272: updateArticle with the summary and the
\* sentences of a request
StoreResults(table, req) ==
  IF req.id <= Len(table)
  THEN [table EXCEPT ![req.id].summary = req.summary,
                     ![req.id].sentences_json = <<req.results>>]
  ELSE table

\* lines 123-152: the items are saved and linked one by one, then the
\* article is updated and the response sent; a throw on the way gives 500
\* and leaves what was written
ProcessSaveAndRespond ==
  /\ \E r \in Slots :
       /\ requests[r].pc = "vocabularyDone"
       /\ LET req == requests[r]
              saved == IF req.vocabulary.json = "array"
                       THEN SaveItems(req.vocabulary.items, req.id, vocabTable, links)
                       ELSE [threw |-> TRUE, table |-> vocabTable, links |-> links]
          IN /\ vocabTable' = saved.table
             /\ links' = saved.links
             /\ articles' = IF saved.threw THEN articles
                            ELSE StoreResults(articles, req)
       /\ requests' = [requests EXCEPT ![r] = NoProcess]
  /\ UNCHANGED serverFrame

\* the server starts with empty tables and the client configured
InitServer ==
  /\ chineseText = <<>>
  /\ azureOpenAI = TRUE
  /\ InitCommon
  /\ NoTranslateText
  /\ NoRequest
  /\ NoClassify
  /\ NoRender
  /\ NoProgress
  /\ NoSpeech
  /\ NoServer

NextServer ==
  \/ CreateArticle
  \/ UpdateTranscription
  \/ BeginProcess
  \/ ProcessSummarySettles
  \/ ProcessSentencesBegin
  \/ ProcessTranslateSettles
  \/ ProcessVocabularyBegin
  \/ ProcessVocabularySettles
  \/ ProcessSaveAndRespond

SpecServer == InitServer /\ [][NextServer]_vars

(***************************************************************************)
(* Vocabulary of the properties                                            *)
(***************************************************************************)
\* processSentences has run its segmentation step
Segmented == pc # "idle"

HasPrimary(t) == \E k \in 1..Len(t) : t[k] \in PrimaryMarks
HasSecondary(t) == \E k \in 1..Len(t) : t[k] \in SecondaryDelims
IsBlank(t) == \A k \in 1..Len(t) : t[k] \in WhiteSpace
OnlyMarksAndSpace(t) == \A k \in 1..Len(t) : t[k] \in PrimaryMarks \cup WhiteSpace

\* t without its leading and trailing white space, by positions
TrimmedInput(t) ==
  LET solid == {k \in 1..Len(t) : t[k] \notin WhiteSpace}
  IN IF solid = {} THEN <<>>
     ELSE SubSeq(t, CHOOSE k \in solid : \A m \in solid : k <= m,
                    CHOOSE k \in solid : \A m \in solid : k >= m)

\* t without any white space
StripWS(t) == SelectSeq(t, LAMBDA c : c \notin WhiteSpace)

\* the sentence-ending marks of t, in order
MarksOf(t) == SelectSeq(t, LAMBDA c : c \in PrimaryMarks)

\* position k of t holds a sentence-ending mark with no text before it:
\* nothing but white space lies between it and the previous mark (or the start)
IsOrphanMark(t, k) ==
  /\ t[k] \in PrimaryMarks
  /\ \A j \in 1..(k - 1) :
       \/ t[j] \in WhiteSpace \cup PrimaryMarks
       \/ \E m \in (j + 1)..(k - 1) : t[m] \in PrimaryMarks

\* t without the marks that have no text before them
RECURSIVE KeepFrom(_, _)
KeepFrom(t, k) ==
  IF k > Len(t) THEN <<>>
  ELSE (IF IsOrphanMark(t, k) THEN <<>> ELSE <<t[k]>>) \o KeepFrom(t, k + 1)

DropOrphanMarks(t) == KeepFrom(t, 1)

\* the pieces between the secondary delimiters of t, trimmed, empties dropped
RECURSIVE PiecesFrom(_, _, _)
PiecesFrom(t, k, cur) ==
  IF k > Len(t)
  THEN IF TrimmedInput(cur) = <<>> THEN <<>> ELSE <<TrimmedInput(cur)>>
  ELSE IF t[k] \in SecondaryDelims
       THEN (IF TrimmedInput(cur) = <<>> THEN <<>> ELSE <<TrimmedInput(cur)>>)
            \o PiecesFrom(t, k + 1, <<>>)
       ELSE PiecesFrom(t, k + 1, Append(cur, t[k]))

SecondaryPieces(t) == PiecesFrom(t, 1, <<>>)

\* a is a subsequence of b: a can be read off b from left to right
RECURSIVE IsSubseq(_, _)
IsSubseq(a, b) ==
  IF a = <<>> THEN TRUE
  ELSE IF b = <<>> THEN FALSE
  ELSE IF Head(a) = Head(b) THEN IsSubseq(Tail(a), Tail(b))
  ELSE IsSubseq(a, Tail(b))

\* the space-separated tokens of a pinyin string
RECURSIVE TokensFrom(_, _, _)
TokensFrom(str, k, cur) ==
  IF k > Len(str) THEN (IF cur = <<>> THEN <<>> ELSE <<cur>>)
  ELSE IF str[k] = 32
       THEN (IF cur = <<>> THEN <<>> ELSE <<cur>>) \o TokensFrom(str, k + 1, <<>>)
       ELSE TokensFrom(str, k + 1, Append(cur, str[k]))

Tokens(str) == TokensFrom(str, 1, <<>>)

\* the number of Chinese-range code points of a sentence
ChineseCount(sentence) == Cardinality({k \in 1..Len(sentence) : isChineseChar(sentence[k])})

\* the service answered the k-th call with one token per unit: a syllable
\* for each Chinese character, the unit itself for every other unit
OneTokenPerUnit(k) ==
  /\ ~pinyinLog[k].threw
  /\ \A j \in 1..Len(pinyinLog[k].result) : pinyinLog[k].result[j] # <<>>

\* the syllables the service gave in its k-th answer for the Chinese
\* characters of the sentence, in the order of the characters
RECURSIVE SyllablesFrom(_, _, _)
SyllablesFrom(sentence, result, j) ==
  IF j > Len(result) THEN <<>>
  ELSE (IF isChineseChar(Units(sentence)[j][1]) THEN <<result[j][1]>> ELSE <<>>)
       \o SyllablesFrom(sentence, result, j + 1)

ChinesePunctuation == PrimaryMarks \cup SecondaryDelims

OnlyChinese(sentence) ==
  \A k \in 1..Len(sentence) :
    isChineseChar(sentence[k]) \/ sentence[k] \in ChinesePunctuation

(***************************************************************************)
(* Properties                                                              *)
(***************************************************************************)
\* C1: a text without 。！？ that contains ， or ； is segmented into the
\* trimmed non-empty pieces between its secondary delimiters, in order.
C1_SecondarySplit ==
  (Segmented /\ ~HasPrimary(chineseText) /\ HasSecondary(chineseText))
    => sentences = SecondaryPieces(chineseText)

C3_NoSentenceOfMarksOnly ==
  Segmented => \A k \in 1..Len(sentences) : ~OnlyMarksAndSpace(sentences[k])

\* C4: for the empty and for every white-space-only text the call returns
\* the empty sequence at once, without calling transliteration or translation.
C4_BlankGivesNothing ==
  (Segmented /\ IsBlank(chineseText))
    => /\ pc = "sentencesDone"
       /\ sentences = <<>>
       /\ results = <<>>
       /\ pinyinLog = <<>>
       /\ translateLog = <<>>

\* a white-space-only text of two characters has been processed
C4_Witness ==
  /\ pc = "sentencesDone"
  /\ Len(chineseText) = 2
  /\ IsBlank(chineseText)

\* C5: a text that is not blank and has none of 。！？，； is one sentence,
\* the trimmed text.
C5_NoPunctuationOneSentence ==
  (Segmented /\ ~IsBlank(chineseText)
     /\ ~HasPrimary(chineseText) /\ ~HasSecondary(chineseText))
    => sentences = <<TrimmedInput(chineseText)>>

\* a text without punctuation whose trimming removes something
C5_Witness ==
  /\ pc = "sentencesDone"
  /\ ~IsBlank(chineseText)
  /\ ~HasPrimary(chineseText) /\ ~HasSecondary(chineseText)
  /\ TrimmedInput(chineseText) # chineseText
  /\ Len(results) = 1

\* C6: every sentence is non-empty after trimming, and the sentences lie in
\* the text in the order they are returned.
C6_NonEmptyInOrder ==
  Segmented
    => /\ \A k \in 1..Len(sentences) : TrimmedInput(sentences[k]) # <<>>
       /\ IsSubseq(Concat(sentences), chineseText)

\* two different sentences have been returned
C6_Witness ==
  /\ pc = "sentencesDone"
  /\ Len(sentences) = 2
  /\ sentences[1] # sentences[2]

\* C7: when the service returns one token per unit, the pinyin string of a
\* sentence has at most as many tokens as the sentence has Chinese-range code
\* points.
C7_TokensAtMostChinese ==
  \A k \in 1..Len(results) :
    OneTokenPerUnit(k)
      => Len(Tokens(results[k].pinyin)) <= ChineseCount(results[k].chinese)

\* C8: for a sentence of Chinese characters and Chinese punctuation only, when
\* the service gives a syllable for every Chinese character, the tokens of the
\* pinyin string are these syllables, one per Chinese character, in order.
C8_OneSyllablePerCharacter ==
  \A k \in 1..Len(results) :
    (OnlyChinese(results[k].chinese) /\ OneTokenPerUnit(k))
      => /\ Len(Tokens(results[k].pinyin)) = ChineseCount(results[k].chinese)
         /\ Tokens(results[k].pinyin)
              = SyllablesFrom(results[k].chinese, pinyinLog[k].result, 1)

\* a sentence of two different Chinese characters and a mark got two tokens,
\* one of them six letters long
C8_Witness ==
  /\ pc = "sentencesDone"
  /\ Len(results) >= 1
  /\ OnlyChinese(results[1].chinese)
  /\ OneTokenPerUnit(1)
  /\ ChineseCount(results[1].chinese) = 2
  /\ results[1].chinese[1] # results[1].chinese[2]
  /\ HasPrimary(results[1].chinese)
  /\ Len(Tokens(results[1].pinyin)) = 2

\* C9: when the transliteration call throws for sentence k, translate is
\* still called for sentence k, its record is emitted with the empty pinyin,
\* and the call ends only with one record for every sentence.
C9_PinyinFailureContained ==
  \A k \in 1..Len(pinyinLog) :
    pinyinLog[k].threw
      => /\ Len(translateLog) >= k
         /\ translateLog[k] = sentences[k]
         /\ k = Len(results) + 1 => pc = "awaitTranslate" /\ pinyinStr = <<>>
         /\ k <= Len(results)
              => results[k].chinese = sentences[k] /\ results[k].pinyin = <<>>
         /\ pc = "sentencesDone"
              => /\ Len(results) = Len(sentences)
                 /\ Len(pinyinLog) = Len(sentences)
                 /\ Len(translateLog) = Len(sentences)

\* the transliteration threw for the first of two sentences, the second one
\* got its pinyin and both were translated
C9_Witness ==
  /\ pc = "sentencesDone"
  /\ Len(results) = 2
  /\ pinyinLog[1].threw
  /\ ~pinyinLog[2].threw
  /\ results[2].pinyin # <<>>
  /\ results[1].english # TranslationUnavailable

\* C10: when the language-model client is not configured, generateSummary
\* returns the not-configured placeholder, extractVocabulary returns the empty
\* list, and no call of the language-model service is issued.
C10_UnconfiguredNoCall ==
  ~azureOpenAI
    => /\ llmLog = <<>>
       /\ pc \in {"idle", "summaryDone", "vocabularyDone"}
       /\ pc = "summaryDone" => summary = SummaryNotConfigured
       /\ pc = "vocabularyDone" => vocabulary = EmptyList

\* generateSummary has returned without a configured client
C10_Witness ==
  /\ ~azureOpenAI
  /\ pc = "summaryDone"
  /\ chineseText # <<>>

\* the language-model call gave no non-empty content: it threw, returned no
\* choice, a message without content, or content that is blank
NoUsableContent(resp) ==
  \/ resp.threw
  \/ resp.choices = <<>>
  \/ ~resp.choices[1].hasContent
  \/ IsBlank(resp.choices[1].content)

\* C11: generateSummary never raises, and whenever the language-model call
\* does not yield non-empty content it returns the 'Summary generation failed'
\* placeholder; otherwise it returns the content, a non-empty string.
C11_SummaryNeverRaises ==
  pc = "summaryDone"
    => /\ ~raised
       /\ summary # <<>>
       /\ \A k \in 1..Len(llmReplies) :
            NoUsableContent(llmReplies[k]) => summary = SummaryFailed

\* the language-model call of generateSummary threw
C11_Witness ==
  /\ pc = "summaryDone"
  /\ Len(llmReplies) = 1
  /\ llmReplies[1].threw
  /\ summary = SummaryFailed

\* the content the service returned is not JSON whatever is done with the
\* code fences: it holds prose, or it holds no JSON document and no '[]'
ContentNotJson(resp) ==
  /\ ~resp.threw
  /\ resp.choices # <<>>
  /\ resp.choices[1].hasContent
  /\ ~IsBlank(resp.choices[1].content)
  /\ LET c == resp.choices[1].content
     IN \/ \E k \in 1..Len(c) : c[k] = -5
        \/ /\ \A k \in 1..Len(c) : c[k] \notin JsonDocs
           /\ \A k \in 1..(Len(c) - 1) : <<c[k], c[k + 1]>> # <<91, 93>>

\* C14: extractVocabulary never raises and returns the empty list when the
\* client is not configured, when the call fails and when the service returns
\* text that is not JSON.
C14_VocabularyFailuresGiveEmpty ==
  pc = "vocabularyDone"
    => /\ ~raised
       /\ ~azureOpenAI => vocabulary = EmptyList
       /\ \A k \in 1..Len(llmReplies) :
            (llmReplies[k].threw \/ ContentNotJson(llmReplies[k]))
              => vocabulary = EmptyList

\* the service answered a vocabulary request with prose
C14_Witness ==
  /\ pc = "vocabularyDone"
  /\ Len(llmReplies) = 1
  /\ ContentNotJson(llmReplies[1])
  /\ vocabulary = EmptyList

AllFields == {"chinese", "pinyin", "english", "example", "emoji"}

\* v is a list of objects that each carry the five fields
WellFormedList(v) ==
  /\ v.json = "array"
  /\ \A k \in 1..Len(v.items) : v.items[k].fields = AllFields

\* C15: extractVocabulary returns a list of well-formed items or the empty
\* list: a response that is valid JSON of another shape gives the empty list,
\* and no returned value contains a malformed item.
C15_OnlyWellFormedItems ==
  pc = "vocabularyDone" => WellFormedList(vocabulary)

\* the languages that name Chinese
ChineseSources == {<<122, 104, 45, 67, 78>>, <<122, 104, 45, 84, 87>>, <<122, 104>>}

\* C12: translation never raises and returns '(Translation unavailable)'
\* when every translation service it tried has failed (stated here for
\* translateText).
C12_PlaceholderWhenAllFail ==
  pc = "translateTextDone"
    => /\ ~raised
       /\ (/\ translateReplies # <<>>
           /\ translateReplies[Len(translateReplies)].threw
           /\ \A k \in 1..Len(llmReplies) : NoUsableContent(llmReplies[k]))
            => translated = TranslationUnavailable

\* the language-model path of translateText applies
DictionaryApplies == azureOpenAI /\ langFrom \in ChineseSources /\ langTo = <<101, 110>>

\* C13: translateText tries the language model first for a Chinese source and
\* an English target when the client is configured; a non-empty answer is
\* returned and translate is never called; a throw or an empty answer is
\* followed by one call of translate; in every other case only translate is
\* called.
C13_FirstSuccessWins ==
  /\ Len(llmLog) <= 1
  /\ Len(translateLog) <= 1
  /\ ~DictionaryApplies
       => /\ llmLog = <<>>
          /\ pc # "idle" => translateLog = <<chineseText>>
  /\ DictionaryApplies
       => /\ pc # "idle" => Len(llmLog) = 1 /\ llmLog[1].purpose = "translate"
          /\ llmReplies = <<>> => translateLog = <<>>
          /\ \A k \in 1..Len(llmReplies) :
               IF NoUsableContent(llmReplies[k])
               THEN translateLog = <<chineseText>>
               ELSE /\ translateLog = <<>>
                    /\ pc = "translateTextDone"
                    /\ translated = TrimmedInput(llmReplies[k].choices[1].content)

\* the language model was asked first, gave nothing, and translate answered
C13_Witness ==
  /\ pc = "translateTextDone"
  /\ DictionaryApplies
  /\ Len(llmReplies) = 1
  /\ ~llmReplies[1].threw
  /\ NoUsableContent(llmReplies[1])
  /\ Len(translateReplies) = 1
  /\ translated \in TranslationTexts

\* the process request was made on an article that exists and has ended
RequestEnded == pc = "responded" /\ article.id # 0

\* C16: a process request on an existing article ends, whatever the services
\* answer, with status 200 and a result holding a summary, one sentence
\* record per segmented sentence and the vocabulary list.
C16_RequestAlwaysCompletes ==
  RequestEnded
    => /\ response.status = 200
       /\ response.summary # <<>>
       /\ Len(response.sentences) = Len(Segment(chineseText))

\* the calls of the language model made for a purpose
CallsFor(purpose) == {k \in 1..Len(llmLog) : llmLog[k].purpose = purpose}

\* the sentence stage of the request is over
SentencesStageOver ==
  pc \in {"sentencesDone", "awaitVocabulary", "vocabularyDone"} \/ RequestEnded

\* C17: during one process request the summary service and the vocabulary
\* service are each called at most once, and translate and the
\* transliteration are each called once per segmented sentence, in order,
\* whether the calls fail or not.
C17_NoRetry ==
  /\ Cardinality(CallsFor("summary")) <= 1
  /\ Cardinality(CallsFor("vocabulary")) <= 1
  /\ Len(translateLog) <= Len(Segment(chineseText))
  /\ translateLog = SubSeq(Segment(chineseText), 1, Len(translateLog))
  /\ Len(pinyinLog) = Len(translateLog)
  /\ SentencesStageOver => Len(translateLog) = Len(Segment(chineseText))

\* a request on two sentences ended after the summary call, a
\* transliteration and a translation had failed
C17_Witness ==
  /\ RequestEnded
  /\ Len(Segment(chineseText)) = 2
  /\ Len(translateLog) = 2
  /\ translateReplies[1].threw
  /\ pinyinLog[2].threw
  /\ llmReplies # <<>>
  /\ llmReplies[1].threw
  /\ Cardinality(CallsFor("vocabulary")) = 1

\* the external calls started and not yet settled
InFlight ==
  (Len(llmLog) - Len(llmReplies)) + (Len(translateLog) - Len(translateReplies))

\* C18: within one process request no two external calls are in flight
\* together; the summary call has settled before the first translation
\* starts, each translation has settled before the next starts, and the
\* vocabulary call starts only after the last translation has settled.
C18_OneCallInFlight ==
  /\ InFlight \in {0, 1}
  /\ translateLog # <<>> => Len(llmReplies) >= Cardinality(CallsFor("summary"))
  /\ Len(translateLog) <= Len(translateReplies) + 1
  /\ CallsFor("vocabulary") # {}
       => /\ Len(translateReplies) = Len(Segment(chineseText))
          /\ Len(llmReplies) >= Cardinality(CallsFor("summary"))

\* the vocabulary call is in flight after a summary call and two translations
C18_Witness ==
  /\ pc = "awaitVocabulary"
  /\ Cardinality(CallsFor("summary")) = 1
  /\ Len(llmReplies) = 1
  /\ Len(translateReplies) = 2
  /\ InFlight = 1

\* the records made so far follow the sentences, each from the outcomes of
\* its own sentence only
C19_RecordsOfOwnSentence ==
  /\ Len(results) <= Len(sentences)
  /\ pc = "sentencesDone" => Len(results) = Len(sentences)
  /\ \A i \in 1..Len(results) :
       /\ results[i].chinese = sentences[i]
       /\ results[i].pinyin = IF pinyinLog[i].threw THEN <<>>
                              ELSE PinyinStrOf(pinyinLog[i])
       /\ results[i].english = IF translateReplies[i].threw
                               THEN TranslationUnavailable
                               ELSE translateReplies[i].text

\* C19: processSentences returns one record per segmented sentence, in
\* order, record i holding sentence i; the pinyin and english of record i
\* follow from the outcomes of sentence i alone, so that a failure on one
\* sentence leaves the other records as they are, and a record once made is
\* never changed.
C19_OneRecordPerSentence ==
  /\ []C19_RecordsOfOwnSentence
  /\ [][/\ Len(results') >= Len(results)
        /\ SubSeq(results', 1, Len(results)) = results]_vars

\* two sentences: the transliteration failed on the first and the
\* translation on the second, and the second record has its pinyin
C19_Witness ==
  /\ pc = "sentencesDone"
  /\ Len(results) = 2
  /\ pinyinLog[1].threw
  /\ ~pinyinLog[2].threw
  /\ results[2].pinyin # <<>>
  /\ ~translateReplies[1].threw
  /\ translateReplies[2].threw

\* the code points of the three ranges of ideographs
IdeographCodePoints == (19968..40959) \cup (13312..19903) \cup (131072..173791)

\* the string starts with a sampled code point of the three ranges
StartsWithIdeograph(str) ==
  \E cp \in SampleCodePoints :
    cp \in IdeographCodePoints /\ StartsWithAt(str, 1, Utf16(cp))

\* C20: each copy of the test answers true exactly when the first code
\* point of the string lies in U+4E00..U+9FFF, U+3400..U+4DBF or
\* U+20000..U+2A6DF, so the three copies agree.
C20_ClassifierRanges ==
  /\ \A copy \in verdict.asked : verdict[copy] = StartsWithIdeograph(char)
  /\ \A a, b \in verdict.asked : verdict[a] = verdict[b]

\* the three copies have answered true on U+2A6DF, the last of Extension B
C20_Witness ==
  /\ verdict.asked = {"server", "article", "card"}
  /\ char = Utf16(173791)
  /\ verdict.server /\ verdict.article /\ verdict.card

\* the number of Chinese characters among the first j of a sentence
ChineseUpTo(chars, j) ==
  Cardinality({i \in 1..j : chars[i] \in IdeographCodePoints})

ProgressKeys == {key \in DOMAIN progress : progress[key].present}

\* the status the documentation gives for the counters of a row
DocumentedStatus(row) ==
  CASE row.times_reviewed >= 3 /\ 5 * row.times_correct >= 4 * row.times_reviewed
         -> "mastered"
    [] row.times_reviewed >= 2 /\ 2 * row.times_correct >= row.times_reviewed
       /\ ~(row.times_reviewed >= 3 /\ 5 * row.times_correct >= 4 * row.times_reviewed)
         -> "reviewing"
    [] OTHER -> "learning"

\* C23: the status of every row of the progress table is the one its
\* counters give, a row has been reviewed at least once and was answered
\* correctly at most as often as it was reviewed.
C23_StatusFollowsCounters ==
  \A key \in ProgressKeys :
    LET row == progress[key]
    IN /\ row.status = DocumentedStatus(row)
       /\ 1 <= row.times_reviewed
       /\ 0 <= row.times_correct
       /\ row.times_correct <= row.times_reviewed

\* a row reviewed five times with four correct answers is mastered, and
\* another reviewed twice with no correct answer is learning
C23_Witness ==
  /\ progress[<<1, 1>>].present
  /\ progress[<<1, 1>>].times_reviewed = 5
  /\ progress[<<1, 1>>].times_correct = 4
  /\ progress[<<1, 1>>].status = "mastered"
  /\ progress[<<2, 1>>].present
  /\ progress[<<2, 1>>].times_reviewed = 2
  /\ progress[<<2, 1>>].times_correct = 0
  /\ progress[<<2, 1>>].status = "learning"

\* learning < reviewing < mastered
StatusRank(status) ==
  CASE status = "learning" -> 1 [] status = "reviewing" -> 2 [] status = "mastered" -> 3

\* C24: a review answered incorrectly never moves a row to a higher status,
\* and no single review moves a row from learning to mastered.
C24_IncorrectNeverPromotes ==
  [][\A key \in ProgressKeys :
       /\ (/\ progress'[key].times_reviewed = progress[key].times_reviewed + 1
           /\ progress'[key].times_correct = progress[key].times_correct)
            => StatusRank(progress'[key].status) <= StatusRank(progress[key].status)
       /\ ~(progress[key].status = "learning" /\ progress'[key].status = "mastered")
    ]_vars

\* C25: the count of restart attempts never passes MAX_RESTART_ATTEMPTS and
\* no restart is pending once it is met; a start event sets it back to 0;
\* when the limit stops the restarts of a mounted hook, no timer is left,
\* the should-restart flag is cleared, the error is set and isListening is
\* false.
C25_RestartsBounded ==
  /\ [](/\ hook.restartAttemptsRef <= MAX_RESTART_ATTEMPTS
        /\ hook.restartAttemptsRef = MAX_RESTART_ATTEMPTS => hook.timers = {})
  /\ [][trace'.lastEvent = "start" => hook'.restartAttemptsRef = 0]_vars
  /\ [][(trace'.endedBy = "limit" /\ hook.mounted)
          => /\ hook'.timers = {}
             /\ ~hook'.shouldRestartRef
             /\ hook'.error = "stopped"
             /\ ~hook'.isListening]_vars

\* C26: after stopListening and until startListening no step calls
\* recognition.start(), whatever events and timers come; and at most one
\* restart timer is pending at any time.
C26_NoStartAfterStop ==
  /\ [](Cardinality(hook.timers) <= 1)
  /\ [][(trace.userStopped /\ trace'.userStopped)
          => engine'.startCalls = engine.startCalls]_vars

\* after stopListening a network error has come from the instance that is
\* ending, and no timer is pending
C26_Witness ==
  /\ trace.userStopped
  /\ trace.lastEvent = "network"
  /\ engine.state = "ending"
  /\ hook.timers = {}

\* a restart scheduled by a network error is pending
NetworkBackoffPending == \E t \in hook.timers : t.delayMs = 1000

C28_EndForGoodReported ==
  [][(trace'.endedBy # "no" /\ hook.mounted /\ hook.isListening)
       => /\ ~hook'.isListening
          /\ hook'.error # "none"]_vars

\* C29: a process request answered with an error (404 or 500) leaves the
\* database as it was before the request: the vocabulary table is one of
\* the tables a request starts from, no link has been added, and the
\* article has neither summary nor sentences.
C29_ErrorLeavesDatabase ==
  (pc = "responded" /\ response.status \in {404, 500})
    => /\ vocabTable \in VocabularyTables
       /\ links = {}
       /\ article.summary = <<>>
       /\ article.sentences_json = <<>>

\* the vocabulary table holds at most one row per chinese text
OneRowPerChinese ==
  \A j, k \in 1..Len(vocabTable) :
    vocabTable[j].chinese = vocabTable[k].chinese => j = k

\* the item is linked to the article in the tables after the step
LinkedAfter(item, articleId) ==
  /\ "chinese" \in item.fields
  /\ \E k \in 1..Len(vocabTable') :
       /\ vocabTable'[k].chinese = item.chinese
       /\ <<articleId, vocabTable'[k].id>> \in links'

\* C22: whatever the process requests and however they interleave, the
\* vocabulary table holds at most one row per chinese text, and when a
\* request has finished, every item its extraction returned is linked to
\* its article.
C22_DeduplicatedAndLinked ==
  /\ []OneRowPerChinese
  /\ [][\A r \in Slots :
         (requests[r].pc = "vocabularyDone" /\ requests'[r].pc = "idle")
           => \A k \in 1..Len(requests[r].vocabulary.items) :
                LinkedAfter(requests[r].vocabulary.items[k], requests[r].id)]_vars

\* the text a process request of the article would take
EffectiveText(row) ==
  IF row.transcription_edited # <<>> THEN row.transcription_edited
  ELSE row.transcription_original

\* the chinese fields of stored sentence records
RECURSIVE ChineseOf(_)
ChineseOf(records) ==
  IF records = <<>> THEN <<>>
  ELSE <<Head(records).chinese>> \o ChineseOf(Tail(records))

\* C30: the original transcription of an article never changes, and the
\* sentences stored for an article are the segmentation of its current
\* effective text.
C30_SentencesOfEffectiveText ==
  /\ [][\A id \in 1..Len(articles) :
         articles'[id].transcription_original = articles[id].transcription_original]_vars
  /\ [](\A id \in 1..Len(articles) :
         articles[id].sentences_json # <<>>
           => ChineseOf(articles[id].sentences_json[1])
                = Segment(EffectiveText(articles[id])))

====
